---------------------------- MODULE Spec2Model ----------------------------
(***************************************************************************)
(* A model of the CodeGraph analysis engine (src/engine/codegraph.py):     *)
(* the dependency graph with its cycle detection, the structural (Python)  *)
(* complexity estimator, the averaging of complexity classes and the       *)
(* project aggregator.                                                     *)
(*                                                                         *)
(* Strings of the program that hold non-ASCII characters are written with  *)
(* their UTF-8 bytes in hexadecimal between brackets: the label the code   *)
(* returns for nested loops is the byte string 4F 28 6E C2 AC E2 89 A4 29  *)
(* (codegraph.py lines 189, 197, 799, 810), written "O(n[C2AC][E289A4])",  *)
(* while the label with a superscript two, 4F 28 6E C2 B2 29, which the    *)
(* tests compare with (test_codegraph.py line 364), is "O(n[C2B2])".       *)
(***************************************************************************)
EXTENDS Integers, Sequences, FiniteSets, TLC

VARIABLES
    graph,          \* DependencyGraphAnalyzer.graph: node -> set of successors
    reverse_graph,  \* DependencyGraphAnalyzer.reverse_graph: node -> predecessors
    graphKeys,      \* the keys of graph in dict insertion order
    called,         \* history: the (source, target) pairs add_dependency was called with
    cycles,         \* the list the last detect_cycles call returned
    cyclesEdges,    \* history: the edge set that call ran on
    detected,       \* history: whether detect_cycles has run on this analyzer
    hashOrder,      \* the iteration order of string sets in this interpreter process
    prevCycles,     \* the list detect_cycles returned on the analyzer built before
    prevEdges,      \* history: the edge set of the analyzer built before
    prevDetected,   \* history: whether an analyzer was built and searched before
    complexity_info,\* the complexity fields of the ComplexityInfo list to average
    average,        \* what the last _calculate_average_complexity call returned
    averageOf,      \* history: the list that call was given (<<"-">> before any call)
    pySource,       \* the lines of the Python file at pyPath
    pyResult,       \* the dict the last PythonParser.parse call returned
    pyParsed,       \* history: whether parse has run on pySource as it is
    projResult,     \* the AnalysisResult the last analyze_project call returned
    projTree,       \* history: the tree that call analysed
    projPrevResult, \* the AnalysisResult of the call before it
    projPrevTree,   \* history: the tree of the call before it
    projRuns,       \* history: the analyze_project calls so far, counted up to 2
    patLang,        \* the language of the file given to a pattern-based parser
    patSource,      \* the text lines of that file
    patResult,      \* what JavaScriptParser.parse or GoParser.parse returned for it
    patParsed,      \* history: whether parse has run on patSource as it is
    returned,       \* the set a caller of get_dependencies or get_dependents holds
    dfsRun          \* the locals of a detect_cycles call in progress and its dfs frames

graphVars == <<graph, reverse_graph, graphKeys, called, cycles, cyclesEdges, detected>>

orderVars == <<hashOrder, prevCycles, prevEdges, prevDetected>>

avgVars == <<complexity_info, average, averageOf>>

pyVars == <<pySource, pyResult, pyParsed>>

projVars == <<projResult, projTree, projPrevResult, projPrevTree, projRuns>>

patVars == <<patLang, patSource, patResult, patParsed>>

refVars == <<returned>>

dfsVars == <<dfsRun>>

vars == <<graphVars, orderVars, avgVars, pyVars, projVars, patVars, refVars, dfsVars>>

---------------------------------------------------------------------------
(* Bounds *)

\* The node names add_dependency is called with on a lone analyzer.
GraphNodes == {"A", "B", "C"}

\* The paths and import targets of the project trees: a dependency's source
\* is the path of the importing file, its target the imported name.
ProjectNodes == {"a.py", "b.py", "c.py"}

\* The most files a ring of imports has.
MaxRing == 5

\* The files of a ring of imports: r1.py, r2.py, ...
RingName(i) == "r" \o ToString(i) \o ".py"

RingNodes == {RingName(i) : i \in 1..MaxRing}

\* Every string that is a node of some graph of the model.
Nodes == GraphNodes \cup ProjectNodes \cup RingNodes

\* The largest number of distinct edges a graph of the model holds.
MaxEdges == 4

\* The longest ComplexityInfo list that is averaged.
MaxRecords == 3

\* The most lines a Python file of the model has.
MaxLines == 5

\* The most text lines a file given to a pattern-based parser holds.
MaxTextLines == 6

---------------------------------------------------------------------------
(* Helpers on sequences and sets *)

Range(s) == {s[i] : i \in DOMAIN s}

\* The orders in which the set S of strings can be iterated: Python's set
\* iteration order follows the strings' hashes, which differ from one
\* interpreter process to the next, and the insertions that built the set.
Perms(S) == {o \in [1..Cardinality(S) -> S] : Range(o) = S}

\* Every successor set iterated in the one order o.
Uniform(o) == [n \in Nodes |-> o]

\* The functions on the nodes of S that give each node n an element of on[n].
RECURSIVE Choices(_, _)
Choices(S, on) ==
    IF S = {} THEN {[x \in {} |-> <<>>]}
    ELSE LET n == CHOOSE x \in S : TRUE
         IN {(n :> o) @@ f : o \in on[n], f \in Choices(S \ {n}, on)}

\* The iteration orders of the successor sets of graph g.
SuccOrdersOf(g) == Choices(Nodes, [n \in Nodes |-> Perms(g[n])])

\* The elements of S, in the order ord gives them.
IterSeq(S, ord) == SelectSeq(ord, LAMBDA x : x \in S)

\* path.index(node): the first position of node in path (0 when absent, where
\* the code raises ValueError).
Index(path, node) ==
    IF node \in Range(path)
    THEN CHOOSE i \in DOMAIN path :
            path[i] = node /\ \A j \in 1..(i-1) : path[j] # node
    ELSE 0

EdgesOf(g) == {e \in Nodes \X Nodes : e[2] \in g[e[1]]}

EmptyGraph == [n \in Nodes |-> {}]

---------------------------------------------------------------------------
(* DependencyGraphAnalyzer *)

\* defaultdict access self.graph[node]: a missing key is created, at the end
\* of the dict's insertion order, with an empty set.
TouchKey(keys, node) ==
    IF node \in Range(keys) THEN keys ELSE Append(keys, node)

\* add_dependency with the reverse edge left out
AddDependencyNoReverse(g, rg, keys, source, target) ==
    [graph |-> [g EXCEPT ![source] = @ \cup {target}],
     reverse_graph |-> rg,
     keys |-> TouchKey(keys, source)]

\* add_dependency(source, target)
AddDependencyOp(g, rg, keys, source, target) ==
    [graph |-> [g EXCEPT ![source] = @ \cup {target}],
     reverse_graph |-> [rg EXCEPT ![target] = @ \cup {source}],
     keys |-> TouchKey(keys, source)]

\* The state of one detect_cycles call: its locals visited, rec_stack, cycles,
\* the path list handed down the recursion, and the keys of self.graph.
DfsInit(keys) ==
    [visited |-> {}, rec_stack |-> {}, path |-> <<>>, cycles |-> <<>>,
     keys |-> keys]

\* dfs with the visited test placed before the rec_stack test
RECURSIVE DfsVisitedFirst(_, _, _, _)
DfsVisitedFirst(g, ord, node, st) ==
    IF node \in st.visited
    THEN st
    ELSE LET entered == [st EXCEPT !.visited = @ \cup {node},
                                   !.rec_stack = @ \cup {node},
                                   !.path = Append(@, node),
                                   !.keys = TouchKey(@, node)]
             succs == IterSeq(g[node], ord[node])
             F[i \in 0..Len(succs)] ==
                 IF i = 0 THEN entered
                 ELSE DfsVisitedFirst(g, ord, succs[i], F[i-1])
             after == F[Len(succs)]
         IN [after EXCEPT !.rec_stack = @ \ {node},
                          !.path = SubSeq(@, 1, Len(@) - 1)]

\* dfs that tests visited where the code tests rec_stack, and closes the
\* whole path
RECURSIVE DfsCycleOnVisited(_, _, _, _)
DfsCycleOnVisited(g, ord, node, st) ==
    IF node \in st.visited
    THEN [st EXCEPT !.cycles = Append(@, st.path \o <<node>>)]
    ELSE LET entered == [st EXCEPT !.visited = @ \cup {node},
                                   !.rec_stack = @ \cup {node},
                                   !.path = Append(@, node),
                                   !.keys = TouchKey(@, node)]
             succs == IterSeq(g[node], ord[node])
             F[i \in 0..Len(succs)] ==
                 IF i = 0 THEN entered
                 ELSE DfsCycleOnVisited(g, ord, succs[i], F[i-1])
             after == F[Len(succs)]
         IN [after EXCEPT !.rec_stack = @ \ {node},
                          !.path = SubSeq(@, 1, Len(@) - 1)]

\* The nested function dfs(node, path) of detect_cycles, the successors of a
\* node iterated in the order ord[node].
\* A dfs that records the whole path, not the part from the revisited node on.
RECURSIVE DfsWholePath(_, _, _, _)
DfsWholePath(g, ord, node, st) ==
    IF node \in st.rec_stack
    THEN [st EXCEPT !.cycles = Append(@, st.path \o <<node>>)]
    ELSE IF node \in st.visited
    THEN st
    ELSE LET entered == [st EXCEPT !.visited = @ \cup {node},
                                   !.rec_stack = @ \cup {node},
                                   !.path = Append(@, node),
                                   !.keys = TouchKey(@, node)]
             succs == IterSeq(g[node], ord[node])
             F[i \in 0..Len(succs)] ==
                 IF i = 0 THEN entered
                 ELSE DfsWholePath(g, ord, succs[i], F[i-1])
             after == F[Len(succs)]
         IN [after EXCEPT !.rec_stack = @ \ {node},
                          !.path = SubSeq(@, 1, Len(@) - 1)]

\* A dfs that never marks a node visited: every key of the graph seeds a root
\* and a node is explored again whenever it is reached off the stack.
RECURSIVE DfsUnmarked(_, _, _, _)
DfsUnmarked(g, ord, node, st) ==
    IF node \in st.rec_stack
    THEN LET cycle_start == Index(st.path, node)
             cycle == SubSeq(st.path, cycle_start, Len(st.path)) \o <<node>>
         IN [st EXCEPT !.cycles = Append(@, cycle)]
    ELSE LET entered == [st EXCEPT !.rec_stack = @ \cup {node},
                                   !.path = Append(@, node),
                                   !.keys = TouchKey(@, node)]
             succs == IterSeq(g[node], ord[node])
             F[i \in 0..Len(succs)] ==
                 IF i = 0 THEN entered
                 ELSE DfsUnmarked(g, ord, succs[i], F[i-1])
             after == F[Len(succs)]
         IN [after EXCEPT !.rec_stack = @ \ {node},
                          !.path = SubSeq(@, 1, Len(@) - 1)]

RECURSIVE Dfs(_, _, _, _)
Dfs(g, ord, node, st) ==
    IF node \in st.rec_stack
    THEN LET cycle_start == Index(st.path, node)
             cycle == SubSeq(st.path, cycle_start, Len(st.path)) \o <<node>>
         IN [st EXCEPT !.cycles = Append(@, cycle)]
    ELSE IF node \in st.visited
    THEN st
    ELSE LET entered == [st EXCEPT !.visited = @ \cup {node},
                                   !.rec_stack = @ \cup {node},
                                   !.path = Append(@, node),
                                   !.keys = TouchKey(@, node)]
             succs == IterSeq(g[node], ord[node])
             F[i \in 0..Len(succs)] ==
                 IF i = 0 THEN entered
                 ELSE Dfs(g, ord, succs[i], F[i-1])
             after == F[Len(succs)]
         IN [after EXCEPT !.rec_stack = @ \ {node},
                          !.path = SubSeq(@, 1, Len(@) - 1)]

\* detect_cycles(): dfs from every key of self.graph not yet visited, the keys
\* taken in insertion order (a snapshot: list(self.graph.keys())).
DetectCyclesOp(g, keys, ord) ==
    LET F[i \in 0..Len(keys)] ==
            IF i = 0 THEN DfsInit(keys)
            ELSE IF keys[i] \in F[i-1].visited THEN F[i-1]
                 ELSE Dfs(g, ord, keys[i], F[i-1])
    IN F[Len(keys)]

---------------------------------------------------------------------------
(* Complexity classes and CodeGraphAnalyzer._calculate_average_complexity *)

\* The label the code writes for nested loops (see the module's head).
Quadratic == "O(n[C2AC][E289A4])"

\* The label with a superscript two, which the code never writes.
QuadraticSuperscript == "O(n[C2B2])"

\* The keys of complexity_scores, in rank order.
ClassLabels ==
    <<"O(1)", "O(log n)", "O(n)", "O(n log n)", Quadratic, "O(2^n)", "O(n!)">>

\* The labels a ComplexityInfo of the model carries: the seven keys and two
\* labels that are no key of complexity_scores.
Labels == Range(ClassLabels) \cup {QuadraticSuperscript, "O(n^3)"}

\* complexity_scores.get(label, 3)
Score(label) ==
    IF label \in Range(ClassLabels)
    THEN CHOOSE i \in DOMAIN ClassLabels : ClassLabels[i] = label
    ELSE 3

\* sum(complexity_scores.get(comp.complexity, 3) for comp in complexity_info)
RECURSIVE TotalScore(_)
TotalScore(info) ==
    IF info = <<>> THEN 0 ELSE Score(Head(info)) + TotalScore(Tail(info))

\* int(total / n): the quotient cut, not rounded
RoundDown(total, n) == total \div n

\* A rounding to the nearest integer that takes a half upwards.
RoundHalfUp(total, n) ==
    IF 2 * (total % n) < n THEN total \div n ELSE (total \div n) + 1

\* round(total / n): Python rounds to the nearest integer, a half to the even
\* neighbour.
Round(total, n) ==
    LET q == total \div n
        r == total % n
    IN IF 2 * r < n THEN q
       ELSE IF 2 * r > n THEN q + 1
       ELSE IF q % 2 = 0 THEN q ELSE q + 1

\* score_to_complexity.get(score, "O(n)")
ScoreToComplexity(score) ==
    IF score \in DOMAIN ClassLabels THEN ClassLabels[score] ELSE "O(n)"

\* _calculate_average_complexity(complexity_info)
CalculateAverageComplexity(info) ==
    IF info = <<>> THEN "O(1)"
    ELSE ScoreToComplexity(Round(TotalScore(info), Len(info)))

AvgInit ==
    /\ complexity_info = <<>>
    /\ average = ""
    /\ averageOf = <<"-">>

\* The caller extends the list of records.
AddRecord(label) ==
    /\ Len(complexity_info) < MaxRecords
    /\ complexity_info' = Append(complexity_info, label)
    /\ UNCHANGED <<average, averageOf>>

CalculateAverage ==
    /\ average' = CalculateAverageComplexity(complexity_info)
    /\ averageOf' = complexity_info
    /\ UNCHANGED complexity_info

AvgNext ==
    \/ \E l \in Labels : AddRecord(l) /\ UNCHANGED <<graphVars, orderVars, pyVars, projVars, patVars, refVars, dfsVars>>
    \/ CalculateAverage /\ UNCHANGED <<graphVars, orderVars, pyVars, projVars, patVars, refVars, dfsVars>>

---------------------------------------------------------------------------
(* PythonParser.  A Python file is the sequence of its statements, one to  *)
(* a line: [kind, name, names, indent], indent counted in indentation      *)
(* steps.  The statements indented under a line are the subtree of its     *)
(* node in the tree ast.parse builds.                                      *)
(*   kind "def", "async def", "class": name is the defined name            *)
(*   kind "for", "while": a loop statement                                 *)
(*   kind "call": the expression statement name(...), func an ast.Name     *)
(*   kind "attrcall": the statement obj.name(...), func an ast.Attribute   *)
(*   kind "import": import names[1], names[2], ...                         *)
(*   kind "from": from name import names[1], ... (name "" is from . )      *)
(*   kind "pass": any other simple statement                               *)

None == "<None>"

Line(kind, name, names, indent) ==
    [kind |-> kind, name |-> name, names |-> names, indent |-> indent]

OpenerKinds == {"def", "async def", "class", "for", "while"}

IsOpener(l) == l.kind \in OpenerKinds

\* ast.parse succeeds: the first statement is not indented, the statements
\* under a compound statement are one step deeper, nothing else is deeper
\* than the line before it, and no compound statement has an empty body.
WellFormed(src) ==
    /\ src # <<>> => src[1].indent = 0
    /\ \A i \in 1..(Len(src) - 1) :
          IF IsOpener(src[i]) THEN src[i+1].indent = src[i].indent + 1
          ELSE src[i+1].indent <= src[i].indent
    /\ src # <<>> => ~IsOpener(src[Len(src)])

\* The last line of the subtree of line i.
SubtreeEnd(src, i) ==
    CHOOSE j \in i..Len(src) :
        /\ \A k \in (i+1)..j : src[k].indent > src[i].indent
        /\ j < Len(src) => src[j+1].indent <= src[i].indent

\* The lines ast.walk(node) visits for the node of line i: line i and the
\* lines under it.
Subtree(src, i) == i..SubtreeEnd(src, i)

\* The lines of src in the order ast.walk(tree) visits their statements:
\* breadth first, so by depth, and in source order within one depth.
WalkOrder(src) ==
    LET all == [i \in 1..Len(src) |-> i]
        F[d \in 0..Len(src)] ==
            LET level == SelectSeq(all, LAMBDA i : src[i].indent = d)
            IN IF d = 0 THEN level ELSE F[d-1] \o level
    IN F[Len(src)]

IsLoop(l) == l.kind \in {"for", "while"}

\* _estimate_complexity that takes any call in the body for a recursive one
EstimateAnyCallRecursive(src, i) ==
    LET nodes == Subtree(src, i)
        loops == Cardinality({j \in nodes : IsLoop(src[j])})
        nested_loops ==
            Cardinality({p \in nodes \X nodes :
                /\ IsLoop(src[p[1]])
                /\ p[2] \in Subtree(src, p[1]) \ {p[1]}
                /\ IsLoop(src[p[2]])})
        recursive_calls ==
            Cardinality({j \in nodes : src[j].kind \in {"call", "attrcall"}})
    IN IF recursive_calls > 0 THEN "O(2^n)"
       ELSE IF nested_loops > 0 THEN Quadratic
       ELSE IF loops > 0 THEN "O(n)"
       ELSE "O(1)"

\* _estimate_complexity(func_node), func_node the definition on line i
EstimateComplexity(src, i) ==
    LET nodes == Subtree(src, i)
        loops == Cardinality({j \in nodes : IsLoop(src[j])})
        \* one for every loop and every other loop under it
        nested_loops ==
            Cardinality({p \in nodes \X nodes :
                /\ IsLoop(src[p[1]])
                /\ p[2] \in Subtree(src, p[1]) \ {p[1]}
                /\ IsLoop(src[p[2]])})
        \* hasattr(node.func, 'id') and isinstance(func_node, ast.FunctionDef)
        \* and node.func.id == func_node.name
        recursive_calls ==
            Cardinality({j \in nodes :
                /\ src[j].kind = "call"
                /\ src[i].kind = "def"
                /\ src[j].name = src[i].name})
    IN IF recursive_calls > 0 THEN "O(2^n)"
       ELSE IF nested_loops > 0 THEN Quadratic
       ELSE IF loops > 0 THEN "O(n)"
       ELSE "O(1)"

\* _is_high_complexity(complexity)
IsHighComplexity(complexity) == complexity \in {Quadratic, "O(2^n)", "O(n!)"}

\* _analyze_complexity(tree, file_path)
AnalyzeComplexity(src, file_path) ==
    LET defs == SelectSeq(WalkOrder(src),
                          LAMBDA i : src[i].kind \in {"def", "async def"})
    IN [k \in 1..Len(defs) |->
          LET complexity == EstimateComplexity(src, defs[k])
          IN [function |-> src[defs[k]].name,
              file |-> file_path,
              complexity |-> complexity,
              line |-> defs[k],
              warning |-> IF IsHighComplexity(complexity)
                          THEN "Consider optimizing - complexity is " \o complexity
                          ELSE None]]

\* _extract_functions(tree)
ExtractFunctions(src) ==
    LET defs == SelectSeq(WalkOrder(src),
                          LAMBDA i : src[i].kind \in {"def", "async def"})
    IN [k \in 1..Len(defs) |-> src[defs[k]].name]

\* _extract_classes(tree)
ExtractClasses(src) ==
    LET defs == SelectSeq(WalkOrder(src), LAMBDA i : src[i].kind = "class")
    IN [k \in 1..Len(defs) |-> src[defs[k]].name]

\* The edges of one import statement, one for each alias.
DependenciesOfLine(src, i, file_path) ==
    LET l == src[i]
    IN IF l.kind = "import"
       THEN [a \in 1..Len(l.names) |->
               [source |-> file_path, target |-> l.names[a], type |-> "import",
                line |-> i, column |-> l.indent]]
       ELSE IF l.kind = "from" /\ l.name # ""
       THEN [a \in 1..Len(l.names) |->
               [source |-> file_path, target |-> l.name \o "." \o l.names[a],
                type |-> "import", line |-> i, column |-> l.indent]]
       ELSE <<>>

\* _extract_dependencies(tree, file_path)
ExtractDependencies(src, file_path) ==
    LET order == WalkOrder(src)
        F[k \in 0..Len(order)] ==
            IF k = 0 THEN <<>>
            ELSE F[k-1] \o DependenciesOfLine(src, order[k], file_path)
    IN F[Len(order)]

\* _extract_imports(tree)
ExtractImports(src) ==
    LET order == WalkOrder(src)
        F[k \in 0..Len(order)] ==
            IF k = 0 THEN <<>>
            ELSE LET l == src[order[k]]
                 IN F[k-1] \o (IF l.kind = "import" THEN l.names
                               ELSE IF l.kind = "from" /\ l.name # ""
                               THEN <<l.name>> ELSE <<>>)
    IN F[Len(order)]

\* What parse returns when anything in it raises.
EmptyParse ==
    [dependencies |-> <<>>, complexity |-> <<>>, functions |-> <<>>,
     imports |-> <<>>, classes |-> <<>>]

\* A parse that keeps what was extracted when it fails.
PythonParsePartial(src, file_path) ==
    [dependencies |-> ExtractDependencies(src, file_path),
     complexity |-> IF WellFormed(src) THEN AnalyzeComplexity(src, file_path) ELSE <<>>,
     functions |-> IF WellFormed(src) THEN ExtractFunctions(src) ELSE <<>>,
     imports |-> ExtractImports(src),
     classes |-> IF WellFormed(src) THEN ExtractClasses(src) ELSE <<>>]

\* PythonParser.parse(file_path), the file holding src
PythonParse(src, file_path) ==
    IF WellFormed(src)
    THEN [dependencies |-> ExtractDependencies(src, file_path),
          complexity |-> AnalyzeComplexity(src, file_path),
          functions |-> ExtractFunctions(src),
          imports |-> ExtractImports(src),
          classes |-> ExtractClasses(src)]
    ELSE EmptyParse

pyPath == "m.py"

\* The statements written to the file of this specification.
Statements ==
    {Line("def", "f", <<>>, 0), Line("def", "g", <<>>, 0),
     Line("async def", "f", <<>>, 0),
     Line("for", "", <<>>, 0), Line("while", "", <<>>, 0),
     Line("call", "f", <<>>, 0), Line("attrcall", "f", <<>>, 0),
     Line("pass", "", <<>>, 0)}

PyInit ==
    /\ pySource = <<>>
    /\ pyResult = EmptyParse
    /\ pyParsed = FALSE

\* The file gets one more statement, under the compound statement before it
\* or at the depth of an earlier line.
WriteLine(stmt, indent) ==
    /\ Len(pySource) < MaxLines
    /\ IF pySource = <<>> THEN indent = 0
       ELSE IF IsOpener(pySource[Len(pySource)])
       THEN indent = pySource[Len(pySource)].indent + 1
       ELSE indent <= pySource[Len(pySource)].indent
    /\ pySource' = Append(pySource, [stmt EXCEPT !.indent = indent])
    /\ pyResult' = EmptyParse
    /\ pyParsed' = FALSE

Parse ==
    /\ ~pyParsed
    /\ pyResult' = PythonParse(pySource, pyPath)
    /\ pyParsed' = TRUE
    /\ UNCHANGED pySource

PyNext ==
    \/ \E stmt \in Statements, indent \in 0..MaxLines :
          WriteLine(stmt, indent) /\ UNCHANGED <<graphVars, orderVars, avgVars, projVars, patVars, refVars, dfsVars>>
    \/ Parse /\ UNCHANGED <<graphVars, orderVars, avgVars, projVars, patVars, refVars, dfsVars>>

\* The statements written to a file of import statements: import a; import
\* a, b; from m import x; from m import x, y; from . import x.
ImportStatements ==
    {Line("import", "", <<"a">>, 0), Line("import", "", <<"a", "b">>, 0),
     Line("from", "m", <<"x">>, 0), Line("from", "m", <<"x", "y">>, 0),
     Line("from", "", <<"x">>, 0),
     Line("def", "f", <<>>, 0), Line("pass", "", <<>>, 0)}

PyImportNext ==
    \/ \E stmt \in ImportStatements, indent \in 0..MaxLines :
          WriteLine(stmt, indent) /\ UNCHANGED <<graphVars, orderVars, avgVars, projVars, patVars, refVars, dfsVars>>
    \/ Parse /\ UNCHANGED <<graphVars, orderVars, avgVars, projVars, patVars, refVars, dfsVars>>

---------------------------------------------------------------------------
(* The pattern-based parsers.  A JavaScript/TypeScript or Go file is the   *)
(* sequence of its text lines, and a line is written with its text and     *)
(* with what the regular expressions and string tests of the parsers find  *)
(* in that text:                                                           *)
(*   functions: <<pattern, name>> for each function pattern that matches,  *)
(*              in the order of the pattern list                           *)
(*   loops:     the loop keywords re.findall finds, in order               *)
(*   open, close: line.count('{'), line.count('}')                         *)
(*   imports:   <<pattern, target, column>> for each import pattern match  *)
(*   quoted:    the first "..." of the line as <<target, column>>, if any  *)
(*   paren:     ')' in line                                                *)

TextLine(text, functions, loops, open, close, imports, quoted, paren) ==
    [text |-> text, functions |-> functions, loops |-> loops,
     open |-> open, close |-> close, imports |-> imports,
     quoted |-> quoted, paren |-> paren]

JsFunction == TextLine("function f(n) {", <<<<1, "f">>>>, <<>>, 1, 0, <<>>, <<>>, TRUE)

JsOneLine ==
    TextLine("function g() { return 1; }", <<<<1, "g">>>>, <<>>, 1, 1,
             <<>>, <<>>, TRUE)

JsArrow ==
    TextLine("const h = (n) => {", <<<<4, "h">>, <<5, "h">>>>, <<>>, 1, 0,
             <<>>, <<>>, TRUE)

JsFor == TextLine("for (const x of xs) {", <<>>, <<"for">>, 1, 0, <<>>, <<>>, TRUE)

JsForLine ==
    TextLine("for (const x of xs) g(x);", <<>>, <<"for">>, 0, 0, <<>>, <<>>, TRUE)

JsForEach ==
    TextLine("xs.forEach(x => { g(x); });", <<>>, <<"forEach">>, 1, 1,
             <<>>, <<>>, TRUE)

JsWhile == TextLine("while (n > 0) {", <<>>, <<"while">>, 1, 0, <<>>, <<>>, TRUE)

JsIf == TextLine("if (n > 0) {", <<>>, <<>>, 1, 0, <<>>, <<>>, TRUE)

Closer == TextLine("}", <<>>, <<>>, 0, 1, <<>>, <<>>, FALSE)

JsReturn == TextLine("return f(n - 1);", <<>>, <<>>, 0, 0, <<>>, <<>>, TRUE)

JsImport ==
    TextLine("import { g } from 'lib';", <<>>, <<>>, 1, 1,
             <<<<1, "lib", 0>>>>, <<>>, FALSE)

GoFunc == TextLine("func f(n int) int {", <<<<1, "f">>>>, <<>>, 1, 0, <<>>, <<>>, TRUE)

GoOneLine ==
    TextLine("func g() int { return 1 }", <<<<1, "g">>>>, <<>>, 1, 1,
             <<>>, <<>>, TRUE)

GoFor ==
    TextLine("for _, x := range xs {", <<>>, <<"for", "range">>, 1, 0,
             <<>>, <<>>, FALSE)

GoForLine ==
    TextLine("for _, x := range xs { g(x) }", <<>>, <<"for", "range">>, 1, 1,
             <<>>, <<>>, TRUE)

GoIf == TextLine("if n > 0 {", <<>>, <<>>, 1, 0, <<>>, <<>>, FALSE)

GoReturn == TextLine("return f(n - 1)", <<>>, <<>>, 0, 0, <<>>, <<>>, TRUE)

GoImport ==
    TextLine("import \"fmt\"", <<>>, <<>>, 0, 0, <<<<1, "fmt", 0>>>>,
             <<<<"fmt", 7>>>>, FALSE)

GoImportOpen == TextLine("import (", <<>>, <<>>, 0, 0, <<>>, <<>>, FALSE)

GoQuoted ==
    TextLine("\"os\"", <<>>, <<>>, 0, 0, <<<<3, "os", 0>>>>, <<<<"os", 0>>>>, FALSE)

GoImportClose == TextLine(")", <<>>, <<>>, 0, 0, <<>>, <<>>, TRUE)

\* 'import (' in line
HasImportOpen(line) == line.text = GoImportOpen.text

Min(S) == CHOOSE x \in S : \A y \in S : x <= y

\* The search limits of the two body extractors.
JsBodyLimit == 50

GoBodyLimit == 100

\* _extract_function_body(lines, start_line) and _extract_go_function_body,
\* start_line counted from 0, limit the length of the search: the lines from
\* the start line up to the first later line at which the count of '{' less
\* '}' is zero or below, or up to the limit or the end of the file.
ExtractFunctionBody(lines, start_line, limit) ==
    IF start_line >= Len(lines) THEN <<>>
    ELSE LET last == IF Len(lines) < start_line + limit
                     THEN Len(lines) ELSE start_line + limit
             brace_count[i \in start_line..(last - 1)] ==
                 (IF i = start_line THEN 0 ELSE brace_count[i - 1])
                     + lines[i + 1].open - lines[i + 1].close
             stops == {i \in (start_line + 1)..(last - 1) : brace_count[i] <= 0}
             end == IF stops = {} THEN last - 1 ELSE Min(stops)
         IN SubSeq(lines, start_line + 1, end + 1)

\* The scan for nested loops of both estimators: in_loop and nested_loops
\* after the first k lines.  A line that holds a loop keyword never resets
\* in_loop, whatever braces it holds.
LoopScan(func_content, keywords) ==
    LET F[k \in 0..Len(func_content)] ==
            IF k = 0 THEN [in_loop |-> FALSE, nested_loops |-> 0]
            ELSE LET line == func_content[k]
                     before == F[k - 1]
                 IN IF Range(line.loops) \cap keywords # {}
                    THEN [in_loop |-> TRUE,
                          nested_loops |-> IF before.in_loop
                                           THEN before.nested_loops + 1
                                           ELSE before.nested_loops]
                    ELSE IF line.close > 0
                    THEN [before EXCEPT !.in_loop = FALSE]
                    ELSE before
    IN F[Len(func_content)]

\* len(re.findall(pattern, func_content)) for a pattern of loop keywords
RECURSIVE CountLoops(_, _)
CountLoops(func_content, keywords) ==
    IF func_content = <<>> THEN 0
    ELSE Len(SelectSeq(Head(func_content).loops, LAMBDA w : w \in keywords))
             + CountLoops(Tail(func_content), keywords)

JsLoopKeywords == {"for", "while", "forEach"}

\* _estimate_js_complexity(func_content)
EstimateJsComplexity(func_content) ==
    IF LoopScan(func_content, JsLoopKeywords).nested_loops > 0 THEN Quadratic
    ELSE IF CountLoops(func_content, JsLoopKeywords) > 0 THEN "O(n)"
    ELSE "O(1)"

\* _estimate_go_complexity(func_content): loops counts for and range, the
\* scan looks for for.
EstimateGoComplexity(func_content) ==
    IF LoopScan(func_content, {"for"}).nested_loops > 0 THEN Quadratic
    ELSE IF CountLoops(func_content, {"for", "range"}) > 0 THEN "O(n)"
    ELSE "O(1)"

\* The (name, line_num, func_content) triples of _extract_functions_with_lines
\* of either parser: line by line, one for each function pattern that
\* matches the line, the body searched from that line on.
ExtractFunctionsWithLines(lines, limit) ==
    LET F[k \in 0..Len(lines)] ==
            IF k = 0 THEN <<>>
            ELSE F[k - 1] \o
                 [p \in 1..Len(lines[k].functions) |->
                     [func_name |-> lines[k].functions[p][2],
                      line_num |-> k,
                      func_content |-> ExtractFunctionBody(lines, k - 1, limit)]]
    IN F[Len(lines)]

\* JavaScriptParser._analyze_complexity(content, file_path)
AnalyzeJsComplexity(lines, file_path) ==
    LET functions == ExtractFunctionsWithLines(lines, JsBodyLimit)
    IN [k \in 1..Len(functions) |->
          LET complexity == EstimateJsComplexity(functions[k].func_content)
          IN [function |-> functions[k].func_name,
              file |-> file_path,
              complexity |-> complexity,
              line |-> functions[k].line_num,
              warning |-> IF IsHighComplexity(complexity)
                          THEN "Consider optimizing - complexity is " \o complexity
                          ELSE None]]

\* GoParser._analyze_complexity(content, file_path)
AnalyzeGoComplexity(lines, file_path) ==
    LET functions == ExtractFunctionsWithLines(lines, GoBodyLimit)
    IN [k \in 1..Len(functions) |->
          LET complexity == EstimateGoComplexity(functions[k].func_content)
          IN [function |-> functions[k].func_name,
              file |-> file_path,
              complexity |-> complexity,
              line |-> functions[k].line_num,
              warning |-> IF IsHighComplexity(complexity)
                          THEN "Consider optimizing - complexity is " \o complexity
                          ELSE None]]

\* The names re.finditer finds for one pattern over the whole content.
MatchesOfPattern(lines, field, pattern) ==
    LET F[k \in 0..Len(lines)] ==
            IF k = 0 THEN <<>>
            ELSE F[k - 1] \o
                 [j \in 1..Len(SelectSeq(lines[k][field],
                                         LAMBDA m : m[1] = pattern)) |->
                     SelectSeq(lines[k][field], LAMBDA m : m[1] = pattern)[j][2]]
    IN F[Len(lines)]

\* The names of a list of patterns, pattern by pattern.
MatchesByPattern(lines, field, patterns) ==
    LET F[p \in 0..patterns] ==
            IF p = 0 THEN <<>>
            ELSE F[p - 1] \o MatchesOfPattern(lines, field, p)
    IN F[patterns]

\* JavaScriptParser._extract_functions(content): five patterns
ExtractJsFunctions(lines) == MatchesByPattern(lines, "functions", 5)

\* JavaScriptParser._extract_imports(content): the first three import patterns
ExtractJsImports(lines) == MatchesByPattern(lines, "imports", 3)

\* JavaScriptParser._extract_dependencies(content, file_path): line by line,
\* all four import patterns
ExtractJsDependencies(lines, file_path) ==
    LET F[k \in 0..Len(lines)] ==
            IF k = 0 THEN <<>>
            ELSE F[k - 1] \o
                 [j \in 1..Len(lines[k].imports) |->
                     [source |-> file_path, target |-> lines[k].imports[j][2],
                      type |-> "import", line |-> k,
                      column |-> lines[k].imports[j][3]]]
    IN F[Len(lines)]

\* JavaScriptParser.parse(file_path).  No line of the model matches the
\* class pattern.
JsParse(lines, file_path) ==
    [dependencies |-> ExtractJsDependencies(lines, file_path),
     complexity |-> AnalyzeJsComplexity(lines, file_path),
     functions |-> ExtractJsFunctions(lines),
     imports |-> ExtractJsImports(lines),
     classes |-> <<>>]

\* The loop of GoParser._extract_dependencies and of _extract_imports:
\* in_import_block and the matches collected after the first k lines.  Inside
\* an import block the first quoted string of a line counts, outside it the
\* matches of the import patterns up to pattern number patterns.
GoImportScan(lines, patterns) ==
    LET F[k \in 0..Len(lines)] ==
            IF k = 0 THEN [in_import_block |-> FALSE, found |-> <<>>]
            ELSE LET line == lines[k]
                     before == F[k - 1]
                 IN IF HasImportOpen(line)
                    THEN [before EXCEPT !.in_import_block = TRUE]
                    ELSE IF line.paren /\ before.in_import_block
                    THEN [before EXCEPT !.in_import_block = FALSE]
                    ELSE IF before.in_import_block
                    THEN [before EXCEPT !.found = @ \o
                            [j \in 1..Len(line.quoted) |->
                                [target |-> line.quoted[j][1], line |-> k,
                                 column |-> line.quoted[j][2]]]]
                    ELSE LET ms == SelectSeq(line.imports,
                                             LAMBDA m : m[1] <= patterns)
                         IN [before EXCEPT !.found = @ \o
                               [j \in 1..Len(ms) |->
                                   [target |-> ms[j][2], line |-> k,
                                    column |-> ms[j][3]]]]
    IN F[Len(lines)].found

\* GoParser._extract_dependencies(content, file_path)
ExtractGoDependencies(lines, file_path) ==
    LET found == GoImportScan(lines, 3)
    IN [j \in 1..Len(found) |->
          [source |-> file_path, target |-> found[j].target, type |-> "import",
           line |-> found[j].line, column |-> found[j].column]]

\* GoParser._extract_imports(content)
ExtractGoImports(lines) ==
    LET found == GoImportScan(lines, 1)
    IN [j \in 1..Len(found) |-> found[j].target]

\* GoParser._extract_functions(content)
ExtractGoFunctions(lines) == MatchesByPattern(lines, "functions", 1)

\* GoParser.parse(file_path).  No line of the model matches the struct
\* pattern.
GoParse(lines, file_path) ==
    [dependencies |-> ExtractGoDependencies(lines, file_path),
     complexity |-> AnalyzeGoComplexity(lines, file_path),
     functions |-> ExtractGoFunctions(lines),
     imports |-> ExtractGoImports(lines),
     structs |-> <<>>]

jsPath == "m.js"

goPath == "m.go"

\* The lines written to the file of this specification.
JsLines ==
    {JsFunction, JsOneLine, JsArrow, JsFor, JsForLine, JsForEach, JsWhile, JsIf, Closer,
     JsReturn, JsImport}

GoLines ==
    {GoFunc, GoOneLine, GoFor, GoForLine, GoIf, Closer, GoReturn, GoImport, GoImportOpen,
     GoQuoted, GoImportClose}

\* The braces left open by a sequence of lines.
RECURSIVE BraceDepth(_)
BraceDepth(lines) ==
    IF lines = <<>> THEN 0
    ELSE BraceDepth(SubSeq(lines, 1, Len(lines) - 1))
             + lines[Len(lines)].open - lines[Len(lines)].close

\* Whether a sequence of lines ends inside a Go import ( ... ) group.
InImportGroup(lines) ==
    \E i \in DOMAIN lines :
        /\ lines[i] = GoImportOpen
        /\ \A j \in (i + 1)..Len(lines) : lines[j] # GoImportClose

PatInit ==
    /\ patLang \in {"js", "go"}
    /\ patSource = <<>>
    /\ patResult = EmptyParse
    /\ patParsed = FALSE

PatIdle ==
    /\ patLang = "js"
    /\ patSource = <<>>
    /\ patResult = EmptyParse
    /\ patParsed = FALSE

\* The file gets one more line and stays the beginning of a program of its
\* language: imports and function headers outside every function, statements
\* inside one, quoted paths inside an import group.
WriteText(line) ==
    /\ Len(patSource) < MaxTextLines
    /\ line \in (IF patLang = "js" THEN JsLines ELSE GoLines)
    /\ IF InImportGroup(patSource)
       THEN line \in {GoQuoted, GoImportClose}
       ELSE /\ line \notin {GoQuoted, GoImportClose}
            /\ IF BraceDepth(patSource) = 0
               THEN line.functions # <<>> \/ line.imports # <<>> \/ line = GoImportOpen
               ELSE line.functions = <<>> /\ line.imports = <<>> /\ line # GoImportOpen
    /\ patSource' = Append(patSource, line)
    /\ patResult' = EmptyParse
    /\ patParsed' = FALSE
    /\ UNCHANGED patLang

ParseJs ==
    /\ patLang = "js"
    /\ ~patParsed
    /\ patResult' = JsParse(patSource, jsPath)
    /\ patParsed' = TRUE
    /\ UNCHANGED <<patLang, patSource>>

ParseGo ==
    /\ patLang = "go"
    /\ ~patParsed
    /\ patResult' = GoParse(patSource, goPath)
    /\ patParsed' = TRUE
    /\ UNCHANGED <<patLang, patSource>>

PatNext ==
    \/ \E line \in JsLines \cup GoLines :
          WriteText(line) /\ UNCHANGED <<graphVars, orderVars, avgVars, pyVars, projVars, refVars, dfsVars>>
    \/ ParseJs /\ UNCHANGED <<graphVars, orderVars, avgVars, pyVars, projVars, refVars, dfsVars>>
    \/ ParseGo /\ UNCHANGED <<graphVars, orderVars, avgVars, pyVars, projVars, refVars, dfsVars>>

---------------------------------------------------------------------------
(* Actions on one DependencyGraphAnalyzer *)

FirstOrder == CHOOSE o \in Perms(GraphNodes) : TRUE

GraphInit ==
    /\ graph = EmptyGraph
    /\ reverse_graph = EmptyGraph
    /\ graphKeys = <<>>
    /\ called = {}
    /\ cycles = <<>>
    /\ cyclesEdges = {}
    /\ detected = FALSE

OrderIdle ==
    /\ hashOrder = FirstOrder
    /\ prevCycles = <<>>
    /\ prevEdges = {}
    /\ prevDetected = FALSE

AddDependency(source, target) ==
    /\ Cardinality(EdgesOf(graph) \cup {<<source, target>>}) <= MaxEdges
    /\ LET r == AddDependencyOp(graph, reverse_graph, graphKeys, source, target)
       IN /\ graph' = r.graph
          /\ reverse_graph' = r.reverse_graph
          /\ graphKeys' = r.keys
    /\ called' = called \cup {<<source, target>>}
    /\ UNCHANGED <<cycles, cyclesEdges, detected>>

DetectCycles(ord) ==
    /\ LET st == DetectCyclesOp(graph, graphKeys, ord)
       IN /\ cycles' = st.cycles
          /\ graphKeys' = st.keys
    /\ cyclesEdges' = EdgesOf(graph)
    /\ detected' = TRUE
    /\ UNCHANGED <<graph, reverse_graph, called>>

\* get_dependencies(node): returns self.graph[node].copy(); the defaultdict
\* access creates the key.
GetDependenciesOp(g, node) == g[node]

GetDependencies(node) ==
    /\ graphKeys' = TouchKey(graphKeys, node)
    /\ UNCHANGED <<graph, reverse_graph, called, cycles, cyclesEdges, detected>>

\* get_dependents(node): returns self.reverse_graph[node].copy(); the keys of
\* reverse_graph are never iterated and are not part of the model.
GetDependentsOp(rg, node) == rg[node]

GetDependents(node) ==
    /\ node \in Nodes
    /\ UNCHANGED graphVars

\* The accessor without .copy(): the set returned is the analyzer's own.
SameObject(set) == [value |-> set, live |-> TRUE]

\* .copy(): the set returned is a new object with the elements of the
\* analyzer's set.
CopyOf(set) == [value |-> set, live |-> FALSE]

NoReturn == [node |-> None, dict |-> None, value |-> {}, live |-> FALSE]

RefIdle == returned = NoReturn

\* No detect_cycles call is in progress.
NoRun == [phase |-> "idle"]

DfsIdle == dfsRun = NoRun

\* A caller keeps what get_dependencies(node) returns.
KeepDependencies(node) ==
    /\ GetDependencies(node)
    /\ returned' = [node |-> node, dict |-> "graph",
                    value |-> CopyOf(GetDependenciesOp(graph, node)).value,
                    live |-> CopyOf(GetDependenciesOp(graph, node)).live]

\* A caller keeps what get_dependents(node) returns.
KeepDependents(node) ==
    /\ GetDependents(node)
    /\ returned' = [node |-> node, dict |-> "reverse_graph",
                    value |-> CopyOf(GetDependentsOp(reverse_graph, node)).value,
                    live |-> CopyOf(GetDependentsOp(reverse_graph, node)).live]

\* The caller adds x to the set it holds, or discards x from it.  Were the
\* set the analyzer's own object, the analyzer's dict would show the change.
ChangeReturned(x) ==
    /\ returned # NoReturn
    /\ \E new \in {IF x \in returned.value THEN returned.value \ {x}
                    ELSE returned.value \cup {x}} :
          /\ returned' = [returned EXCEPT !.value = new]
          /\ graph' = IF returned.live /\ returned.dict = "graph"
                       THEN [graph EXCEPT ![returned.node] = new] ELSE graph
          /\ reverse_graph' = IF returned.live /\ returned.dict = "reverse_graph"
                               THEN [reverse_graph EXCEPT ![returned.node] = new]
                               ELSE reverse_graph
    /\ UNCHANGED <<graphKeys, called, cycles, cyclesEdges, detected>>

\* The nodes the callers of this scenario name in add_dependency; the third
\* node of GraphNodes is only ever asked about.
RefNodes == {"A", "B"}

RefNext ==
    \/ \E s \in RefNodes, t \in RefNodes :
          AddDependency(s, t) /\ UNCHANGED <<orderVars, avgVars, pyVars, projVars, patVars, refVars, dfsVars>>
    \/ \E ord \in SuccOrdersOf(graph) :
          DetectCycles(ord) /\ UNCHANGED <<orderVars, avgVars, pyVars, projVars, patVars, refVars, dfsVars>>
    \/ \E n \in GraphNodes :
          KeepDependencies(n) /\ UNCHANGED <<orderVars, avgVars, pyVars, projVars, patVars, dfsVars>>
    \/ \E n \in GraphNodes :
          KeepDependents(n) /\ UNCHANGED <<orderVars, avgVars, pyVars, projVars, patVars, dfsVars>>
    \/ \E x \in RefNodes :
          ChangeReturned(x) /\ UNCHANGED <<orderVars, avgVars, pyVars, projVars, patVars, dfsVars>>

GraphNext ==
    \/ \E s \in GraphNodes, t \in GraphNodes :
          AddDependency(s, t) /\ UNCHANGED <<orderVars, avgVars, pyVars, projVars, patVars, refVars, dfsVars>>
    \/ \E ord \in SuccOrdersOf(graph) :
          DetectCycles(ord) /\ UNCHANGED <<orderVars, avgVars, pyVars, projVars, patVars, refVars, dfsVars>>
    \/ \E n \in GraphNodes : GetDependencies(n) /\ UNCHANGED <<orderVars, avgVars, pyVars, projVars, patVars, refVars, dfsVars>>
    \/ \E n \in GraphNodes : GetDependents(n) /\ UNCHANGED <<orderVars, avgVars, pyVars, projVars, patVars, refVars, dfsVars>>


---------------------------------------------------------------------------
(* Two analyzers fed the same edges.  The caller builds a graph, searches  *)
(* it and keeps the returned list; it then constructs a second analyzer in *)
(* the same interpreter process, feeds it the same edges in any order, and *)
(* searches that one.                                                      *)

OrderInit ==
    /\ hashOrder \in Perms(GraphNodes)
    /\ prevCycles = <<>>
    /\ prevEdges = {}
    /\ prevDetected = FALSE

OrderAdd(source, target) ==
    /\ ~detected
    /\ prevDetected => <<source, target>> \in prevEdges
    /\ AddDependency(source, target)
    /\ UNCHANGED <<orderVars, avgVars, pyVars, projVars, patVars, refVars, dfsVars>>

OrderDetect ==
    /\ ~detected
    /\ prevDetected => EdgesOf(graph) = prevEdges
    /\ DetectCycles(Uniform(hashOrder))
    /\ UNCHANGED <<orderVars, avgVars, pyVars, projVars, patVars, refVars, dfsVars>>

\* DependencyGraphAnalyzer(): a second instance, with empty dicts.
NewAnalyzer ==
    /\ detected
    /\ ~prevDetected
    /\ prevCycles' = cycles
    /\ prevEdges' = cyclesEdges
    /\ prevDetected' = TRUE
    /\ graph' = EmptyGraph
    /\ reverse_graph' = EmptyGraph
    /\ graphKeys' = <<>>
    /\ called' = {}
    /\ cycles' = <<>>
    /\ cyclesEdges' = {}
    /\ detected' = FALSE
    /\ UNCHANGED <<hashOrder, avgVars, pyVars, projVars, patVars, refVars, dfsVars>>

OrderNext ==
    \/ \E s \in GraphNodes, t \in GraphNodes : OrderAdd(s, t)
    \/ OrderDetect
    \/ NewAnalyzer

---------------------------------------------------------------------------
(* CodeGraphAnalyzer.  A project tree is the sequence of its files in the  *)
(* order Path.rglob yields them; a file is [path, ext, excluded, readable,  *)
(* lines]: ext is the end of path from its last dot on (every registered   *)
(* extension is a dot and letters, so path.endswith(e) is ext = e),        *)
(* excluded whether path holds one of the excluded directory names,        *)
(* readable whether open and read succeed and the bytes decode.            *)

File(path, ext, excluded, lines) ==
    [path |-> path, ext |-> ext, excluded |-> excluded, readable |-> TRUE,
     lines |-> lines]

\* A file that open() refuses or whose bytes are not UTF-8.
Unreadable(file) == [file EXCEPT !.readable = FALSE]

Import(target) == Line("import", "", <<target>>, 0)

\* self.parsers, in registry order, each with its file_extensions
Parsers ==
    <<[name |-> "PythonParser", file_extensions |-> {".py"}],
      [name |-> "JavaScriptParser",
       file_extensions |-> {".js", ".ts", ".jsx", ".tsx"}],
      [name |-> "GoParser", file_extensions |-> {".go"}]>>

\* BaseParser.can_parse(file_path)
CanParse(parser, file) == file.ext \in parser.file_extensions

\* _get_parser(file_path): the first parser that can parse it, or None
GetParser(file) ==
    IF \E i \in DOMAIN Parsers : CanParse(Parsers[i], file)
    THEN Parsers[CHOOSE i \in DOMAIN Parsers :
                    /\ CanParse(Parsers[i], file)
                    /\ \A j \in 1..(i-1) : ~CanParse(Parsers[j], file)].name
    ELSE None

\* A search that keeps every file that is not excluded.
FindSourceFilesAnyFile(tree) == SelectSeq(tree, LAMBDA f : ~f.excluded)

\* _find_source_files(project_path, exclude_patterns): the files that are not
\* excluded and have a parser, in the order of the tree.
FindSourceFiles(tree) ==
    SelectSeq(tree, LAMBDA f : ~f.excluded /\ GetParser(f) # None)

\* parser.parse(file_path) of the parser _get_parser chose: the except branch
\* of each parse when the file cannot be read.
ParseFile(file) ==
    IF GetParser(file) = "PythonParser"
    THEN IF file.readable THEN PythonParse(file.lines, file.path) ELSE EmptyParse
    ELSE IF GetParser(file) = "JavaScriptParser"
    THEN IF file.readable THEN JsParse(file.lines, file.path) ELSE EmptyParse
    ELSE IF file.readable THEN GoParse(file.lines, file.path)
         ELSE [dependencies |-> <<>>, complexity |-> <<>>, functions |-> <<>>,
               imports |-> <<>>, structs |-> <<>>]

\* all_dependencies.extend(...), all_complexity.extend(...) and
\* all_functions.extend(...) for the result of one file.
\* The records of a list, one for each (source, target) pair.
OnePerPair(deps) ==
    SelectSeq([k \in DOMAIN deps |-> [rec |-> deps[k], k |-> k]],
              LAMBDA e : \A j \in 1..(e.k - 1) :
                            \/ deps[j].source # e.rec.source
                            \/ deps[j].target # e.rec.target)

\* An accumulation that keeps one dependency record for each pair of a file.
ExtendOnePerPair(acc, result) ==
    [dependencies |-> acc.dependencies \o
                      [k \in DOMAIN OnePerPair(result.dependencies) |->
                          OnePerPair(result.dependencies)[k].rec],
     complexity |-> acc.complexity \o result.complexity,
     functions |-> acc.functions \o result.functions]

Extend(acc, result) ==
    [dependencies |-> acc.dependencies \o result.dependencies,
     complexity |-> acc.complexity \o result.complexity,
     functions |-> acc.functions \o result.functions]

\* The three lists analyze_project accumulates over all_files.
Accumulate(all_files) ==
    LET F[k \in 0..Len(all_files)] ==
            IF k = 0
            THEN [dependencies |-> <<>>, complexity |-> <<>>, functions |-> <<>>]
            ELSE Extend(F[k-1], ParseFile(all_files[k]))
    IN F[Len(all_files)]

\* for dep in all_dependencies: self.dependency_analyzer.add_dependency(...)
BuildGraph(g, rg, keys, deps) ==
    LET F[k \in 0..Len(deps)] ==
            IF k = 0 THEN [graph |-> g, reverse_graph |-> rg, keys |-> keys]
            ELSE AddDependencyOp(F[k-1].graph, F[k-1].reverse_graph,
                                 F[k-1].keys, deps[k].source, deps[k].target)
    IN F[Len(deps)]

\* A severity that is 'error' from five entries on.
SeverityFromFive(cycle) == IF Len(cycle) >= 5 THEN "error" ELSE "warning"

\* severity='error' if len(cycle) > 5 else 'warning'
Severity(cycle) == IF Len(cycle) > 5 THEN "error" ELSE "warning"

\* circular_deps: a CircularDependency for each cycle found
CircularDeps(found_cycles) ==
    [k \in 1..Len(found_cycles) |->
        [cycle |-> found_cycles[k], severity |-> Severity(found_cycles[k])]]

\* The ProjectMetrics and the AnalysisResult analyze_project returns, with the
\* dicts of self.dependency_analyzer as the call leaves them.
Assemble(all_files, acc, built, found) ==
    [result |->
        [dependencies |-> acc.dependencies,
         complexity |-> acc.complexity,
         cycles |-> CircularDeps(found.cycles),
         metrics |->
            [total_files |-> Len(all_files),
             total_functions |-> Len(acc.functions),
             average_complexity |->
                 CalculateAverageComplexity(
                     [k \in 1..Len(acc.complexity) |-> acc.complexity[k].complexity]),
             dependency_count |-> Len(acc.dependencies),
             circular_dependencies |-> Len(found.cycles)]],
     graph |-> built.graph,
     reverse_graph |-> built.reverse_graph,
     keys |-> found.keys]

\* The steps of analyze_project after the graph is built: detect_cycles.
AnalyzeBuilt(all_files, acc, built, order) ==
    Assemble(all_files, acc, built,
             DetectCyclesOp(built.graph, built.keys, Uniform(order)))

\* The steps of analyze_project after the files are parsed: the edges added
\* to the graph of self.dependency_analyzer.
AnalyzeParsed(all_files, acc, g, rg, keys, order) ==
    AnalyzeBuilt(all_files, acc, BuildGraph(g, rg, keys, acc.dependencies), order)

\* The steps of analyze_project after the files are found: the parse loop.
AnalyzeFiles(all_files, g, rg, keys, order) ==
    AnalyzeParsed(all_files, Accumulate(all_files), g, rg, keys, order)

\* analyze_project(project_path), the tree at project_path and the dicts of
\* self.dependency_analyzer as the call finds them; order is the iteration
\* order of string sets in the process.
AnalyzeProjectOp(tree, g, rg, keys, order) ==
    AnalyzeFiles(FindSourceFiles(tree), g, rg, keys, order)

\* The project trees of the model.
NoTree == <<>>

TreeNoSource ==
    <<File("README.md", ".md", FALSE, <<>>),
      File("venv/a.py", ".py", TRUE, <<Import("a.py")>>)>>

TreeSelf == <<File("a.py", ".py", FALSE, <<Import("a.py")>>)>>

TreePair ==
    <<File("a.py", ".py", FALSE, <<Import("b.py")>>),
      File("b.py", ".py", FALSE, <<Import("a.py")>>)>>

TreeFour ==
    <<File("a.py", ".py", FALSE, <<Import("b.py"), Import("c.py")>>),
      File("c.py", ".py", FALSE, <<Import("a.py")>>),
      File("b.py", ".py", FALSE, <<Import("c.py")>>)>>

TreeChain ==
    <<File("a.py", ".py", FALSE,
           <<Import("b.py"),
             Line("def", "f", <<>>, 0), Line("for", "", <<>>, 1),
             Line("pass", "", <<>>, 2)>>),
      File("b.py", ".py", FALSE,
           <<Import("c.py"),
             Line("def", "g", <<>>, 0), Line("call", "g", <<>>, 1)>>)>>

\* The files of TreeFour met in another order.
TreeFourReordered == <<TreeFour[2], TreeFour[1], TreeFour[3]>>

\* b.py does not parse (a def without a body), c.py cannot be read.
TreeBroken ==
    <<File("a.py", ".py", FALSE,
           <<Import("b.py"), Line("def", "f", <<>>, 0), Line("pass", "", <<>>, 1)>>),
      File("b.py", ".py", FALSE, <<Import("c.py"), Line("def", "g", <<>>, 0)>>),
      Unreadable(File("c.py", ".py", FALSE,
                      <<Import("a.py"), Line("def", "g", <<>>, 0),
                        Line("pass", "", <<>>, 1)>>))>>

\* Files of all three parsers and of none; b.py imports c.py twice.
TreeMixed ==
    <<File("README.md", ".md", FALSE, <<>>),
      File("w.js", ".js", FALSE, <<JsFunction, JsFor, Closer, Closer>>),
      File("m.go", ".go", FALSE, <<GoFunc, Closer>>),
      File("b.py", ".py", FALSE, <<Import("c.py"), Import("c.py")>>)>>

Trees == {NoTree, TreeNoSource, TreeSelf, TreePair, TreeFour, TreeChain}

\* The trees analysed within one interpreter process.
FileTrees == {TreeFour, TreeFourReordered, TreeBroken, TreeMixed}

NoResult ==
    [dependencies |-> <<>>, complexity |-> <<>>, cycles |-> <<>>,
     metrics |-> [total_files |-> 0, total_functions |-> 0,
                  average_complexity |-> "", dependency_count |-> 0,
                  circular_dependencies |-> 0]]

ProjIdle ==
    /\ projResult = NoResult
    /\ projTree = <<>>
    /\ projPrevResult = NoResult
    /\ projPrevTree = <<>>
    /\ projRuns = 0

\* A process starts: main() constructs the CodeGraphAnalyzer, and with it the
\* DependencyGraphAnalyzer, once.
ProjInit ==
    /\ graph = EmptyGraph
    /\ reverse_graph = EmptyGraph
    /\ graphKeys = <<>>
    /\ called = {}
    /\ cycles = <<>>
    /\ cyclesEdges = {}
    /\ detected = FALSE
    /\ hashOrder \in Perms(ProjectNodes)
    /\ prevCycles = <<>>
    /\ prevEdges = {}
    /\ prevDetected = FALSE
    /\ ProjIdle

AnalyzeProject(tree) ==
    /\ \E r \in {AnalyzeProjectOp(tree, graph, reverse_graph, graphKeys, hashOrder)} :
          /\ projResult' = r.result
          /\ graph' = r.graph
          /\ reverse_graph' = r.reverse_graph
          /\ graphKeys' = r.keys
          /\ called' = called \cup
                {<<r.result.dependencies[k].source, r.result.dependencies[k].target>> :
                    k \in DOMAIN r.result.dependencies}
          /\ cycles' = [k \in DOMAIN r.result.cycles |-> r.result.cycles[k].cycle]
          /\ cyclesEdges' = EdgesOf(r.graph)
    /\ detected' = TRUE
    /\ projTree' = tree
    /\ projPrevResult' = projResult
    /\ projPrevTree' = projTree
    /\ projRuns' = IF projRuns < 2 THEN projRuns + 1 ELSE 2
    /\ UNCHANGED <<orderVars, avgVars, pyVars, patVars, refVars, dfsVars>>

\* CodeGraphAnalyzer(): another analyzer in the same process.  The results of
\* earlier calls stay with the caller.
NewCodeGraphAnalyzer ==
    /\ graph' = EmptyGraph
    /\ reverse_graph' = EmptyGraph
    /\ graphKeys' = <<>>
    /\ called' = {}
    /\ cycles' = <<>>
    /\ cyclesEdges' = {}
    /\ detected' = FALSE
    /\ UNCHANGED <<orderVars, avgVars, pyVars, projVars, patVars, refVars, dfsVars>>

\* The program is started again (main, line 926): a new interpreter process,
\* with its own string hashes, and a new CodeGraphAnalyzer.
NewProcess ==
    /\ graph' = EmptyGraph
    /\ reverse_graph' = EmptyGraph
    /\ graphKeys' = <<>>
    /\ called' = {}
    /\ cycles' = <<>>
    /\ cyclesEdges' = {}
    /\ detected' = FALSE
    /\ hashOrder' \in Perms(ProjectNodes)
    /\ UNCHANGED <<prevCycles, prevEdges, prevDetected, avgVars, pyVars, projVars, patVars, refVars, dfsVars>>

ProjNext ==
    \/ \E tree \in Trees : AnalyzeProject(tree)
    \/ NewCodeGraphAnalyzer
    \/ NewProcess

\* A ring of k files, file i importing file i + 1 and file k file 1, the
\* files met from file j on.
Ring(k, j) ==
    [n \in 1..k |->
        LET i == ((j + n - 2) % k) + 1
        IN File(RingName(i), ".py", FALSE, <<Import(RingName((i % k) + 1))>>)]

RingTrees == {Ring(k, j) : k \in 1..MaxRing, j \in 1..MaxRing}

\* Two iteration orders of a set of ring files.  Every file of a ring imports
\* one name, so no successor set of a ring's graph has two elements.
RingOrders ==
    {[i \in 1..MaxRing |-> RingName(i)],
     [i \in 1..MaxRing |-> RingName(MaxRing + 1 - i)]}

\* main() with --analyze: a process that makes a CodeGraphAnalyzer and calls
\* analyze_project once.
RunMain(tree, order) ==
    /\ \E r \in {AnalyzeProjectOp(tree, EmptyGraph, EmptyGraph, <<>>, order)} :
          /\ projResult' = r.result
          /\ graph' = r.graph
          /\ reverse_graph' = r.reverse_graph
          /\ graphKeys' = r.keys
          /\ called' =
                {<<r.result.dependencies[k].source, r.result.dependencies[k].target>> :
                    k \in DOMAIN r.result.dependencies}
          /\ cycles' = [k \in DOMAIN r.result.cycles |-> r.result.cycles[k].cycle]
          /\ cyclesEdges' = EdgesOf(r.graph)
    /\ detected' = TRUE
    /\ hashOrder' = order
    /\ projTree' = tree
    /\ projPrevResult' = projResult
    /\ projPrevTree' = projTree
    /\ projRuns' = IF projRuns < 2 THEN projRuns + 1 ELSE 2
    /\ UNCHANGED <<prevCycles, prevEdges, prevDetected, avgVars, pyVars, patVars, refVars, dfsVars>>

MainNext == \E tree \in RingTrees, order \in RingOrders : RunMain(tree, order)

\* The orders in which rglob can hand over the files of a tree.
FilePermutations(tree) ==
    {[i \in DOMAIN tree |-> tree[p[i]]] : p \in Perms(DOMAIN tree)}

\* Within one process, a new CodeGraphAnalyzer for every analyze_project, the
\* files of TreeFour found in any order.
ReorderNext ==
    \E tree \in FilePermutations(TreeFour) : RunMain(tree, hashOrder)

FilesNext ==
    \/ \E tree \in FileTrees : AnalyzeProject(tree)
    \/ NewCodeGraphAnalyzer

---------------------------------------------------------------------------
(* Specifications *)

\* One DependencyGraphAnalyzer and its callers.
Init == GraphInit /\ OrderIdle /\ AvgInit /\ PyInit /\ ProjIdle /\ PatIdle /\ RefIdle /\ DfsIdle

Spec == Init /\ [][GraphNext]_vars

\* Two DependencyGraphAnalyzers fed the same edges.
InitOrder == GraphInit /\ OrderInit /\ AvgInit /\ PyInit /\ ProjIdle /\ PatIdle /\ RefIdle /\ DfsIdle

SpecOrder == InitOrder /\ [][OrderNext]_vars

\* _calculate_average_complexity on the lists a caller builds.
InitAvg == GraphInit /\ OrderIdle /\ AvgInit /\ PyInit /\ ProjIdle /\ PatIdle /\ RefIdle /\ DfsIdle

SpecAvg == InitAvg /\ [][AvgNext]_vars

\* PythonParser.parse on the files a user writes.
InitPy == GraphInit /\ OrderIdle /\ AvgInit /\ PyInit /\ ProjIdle /\ PatIdle /\ RefIdle /\ DfsIdle

SpecPy == InitPy /\ [][PyNext]_vars

\* PythonParser.parse on files of import statements.
InitPyImports == GraphInit /\ OrderIdle /\ AvgInit /\ PyInit /\ ProjIdle /\ PatIdle /\ RefIdle /\ DfsIdle

SpecPyImports == InitPyImports /\ [][PyImportNext]_vars

\* CodeGraphAnalyzer.analyze_project on the trees of the model.
InitProject == ProjInit /\ AvgInit /\ PyInit /\ PatIdle /\ RefIdle /\ DfsIdle

SpecProject == InitProject /\ [][ProjNext]_vars

\* CodeGraphAnalyzer.analyze_project within one interpreter process, on trees
\* with files of every parser and files that fail.
InitFiles == ProjInit /\ AvgInit /\ PyInit /\ PatIdle /\ RefIdle /\ DfsIdle

SpecFiles == InitFiles /\ [][FilesNext]_vars

\* Runs of main() on rings of imports.
InitMain == GraphInit /\ OrderIdle /\ AvgInit /\ PyInit /\ ProjIdle /\ PatIdle /\ RefIdle /\ DfsIdle

SpecMain == InitMain /\ [][MainNext]_vars

\* The same files analysed in every order, each time by a new analyzer.
InitReorder == ProjInit /\ AvgInit /\ PyInit /\ PatIdle /\ RefIdle /\ DfsIdle

SpecReorder == InitReorder /\ [][ReorderNext]_vars

\* One DependencyGraphAnalyzer and callers that keep and change the sets it
\* returns.
InitRefs == GraphInit /\ OrderIdle /\ AvgInit /\ PyInit /\ ProjIdle /\ PatIdle /\ RefIdle /\ DfsIdle

SpecRefs == InitRefs /\ [][RefNext]_vars

\* JavaScriptParser.parse and GoParser.parse on the files a user writes.
InitPattern == GraphInit /\ OrderIdle /\ AvgInit /\ PyInit /\ ProjIdle /\ PatInit /\ RefIdle /\ DfsIdle

SpecPattern == InitPattern /\ [][PatNext]_vars

---------------------------------------------------------------------------
(* Properties of the dependency graph *)

\* The pairs (a, b) with a path of at least one edge of E from a to b.
RECURSIVE PathsWithin(_, _)
PathsWithin(E, k) ==
    IF k = 0 THEN E
    ELSE LET P == PathsWithin(E, k - 1)
         IN P \cup {<<x[1][1], x[2][2]>> : x \in {y \in P \X E : y[1][2] = y[2][1]}}

Reachable(E) == PathsWithin(E, Cardinality(Nodes))

\* E has a directed cycle (a self-loop is one).
HasCycle(E) == \E n \in Nodes : <<n, n>> \in Reachable(E)

Triangle == {<<"A", "B">>, <<"B", "C">>, <<"C", "A">>}

\* C1: forward and reverse adjacency agree in every reachable state, and b is
\* a dependency of a exactly when add_dependency(a, b) has been called.
C1_AdjacencyInSync ==
    \A a \in Nodes, b \in Nodes :
        /\ (b \in GetDependenciesOp(graph, a)) <=> (a \in GetDependentsOp(reverse_graph, b))
        /\ (b \in GetDependenciesOp(graph, a)) <=> (<<a, b>> \in called)

C1_Witness ==
    /\ called = {<<"A", "B">>, <<"B", "C">>}
    /\ "B" \in GetDependenciesOp(graph, "A")
    /\ "A" \in GetDependentsOp(reverse_graph, "B")
    /\ "A" \notin GetDependenciesOp(graph, "B")

\* C2: on a graph with a directed cycle detect_cycles returns at least one
\* cycle, in whatever order roots and successors are taken; on the graph
\* A->B, B->C, C->A some returned cycle has exactly the nodes A, B, C.
C2_CycleFound ==
    detected =>
        /\ HasCycle(cyclesEdges) => Len(cycles) >= 1
        /\ cyclesEdges = Triangle =>
               \E i \in DOMAIN cycles : Range(cycles[i]) = {"A", "B", "C"}

C2_Witness ==
    /\ detected
    /\ cyclesEdges = Triangle
    /\ graphKeys = <<"C", "A", "B">>
    /\ Len(cycles) >= 1

\* C3: on a graph without a directed cycle detect_cycles returns the empty
\* list, in whatever order roots and successors are taken.
C3_NoCycleOnDag ==
    (detected /\ ~HasCycle(cyclesEdges)) => cycles = <<>>

\* A node reached along two paths: A->C and A->B->C.
C3_Witness ==
    /\ detected
    /\ cyclesEdges = {<<"A", "B">>, <<"B", "C">>, <<"A", "C">>}
    /\ cycles = <<>>

\* The closed walks that are c started at another of its nodes.
Rotations(c) ==
    LET body == SubSeq(c, 1, Len(c) - 1)
        k == Len(body)
    IN {[i \in 1..(k + 1) |-> body[((i - 1 + r) % k) + 1]] : r \in 0..(k - 1)}

\* The cycles of a returned list, each taken up to rotation.
CycleSet(cs) == {Rotations(cs[i]) : i \in DOMAIN cs}

\* C4 (as claimed): two analyzers holding the same edges, inserted in whatever
\* two orders, return the same set of cycles up to rotation.
C4_SameCyclesAnyInsertionOrder ==
    (prevDetected /\ detected /\ cyclesEdges = prevEdges) =>
        CycleSet(cycles) = CycleSet(prevCycles)

---------------------------------------------------------------------------
(* Properties of the average *)

---------------------------------------------------------------------------
(* Properties of the Python complexity estimate *)

\* The loops lexically inside the function defined on line i.
LoopsIn(src, i) == {j \in Subtree(src, i) \ {i} : IsLoop(src[j])}

\* A loop of the function on line i lies inside another of its loops.
LoopInsideLoop(src, i) ==
    \E j \in LoopsIn(src, i), k \in LoopsIn(src, i) :
        k \in Subtree(src, j) \ {j}

\* The body of the function on line i holds a direct call of its own name.
CallsItself(src, i) ==
    \E j \in Subtree(src, i) \ {i} :
        src[j].kind = "call" /\ src[j].name = src[i].name

\* The classification the claims give a function, the label of nested loops
\* being the parameter quadratic.
ClassifiedByLoops(rec, quadratic) ==
    LET i == rec.line
    IN /\ LoopsIn(pySource, i) = {} => rec.complexity = "O(1)"
       /\ (LoopsIn(pySource, i) # {} /\ ~LoopInsideLoop(pySource, i)) =>
              rec.complexity = "O(n)"
       /\ LoopInsideLoop(pySource, i) =>
              /\ rec.complexity = quadratic
              /\ rec.warning \notin {None, ""}

\* C9 (as claimed): of the functions that do not call themselves, one without
\* a loop is 'O(1)', one whose loops are not nested is 'O(n)', and one with a
\* loop inside a loop, however deep, is 'O(n^2)' written with a superscript
\* two, with a non-empty warning.
C9_LoopClassification ==
    pyParsed =>
        \A k \in DOMAIN pyResult.complexity :
            ~CallsItself(pySource, pyResult.complexity[k].line) =>
                ClassifiedByLoops(pyResult.complexity[k], QuadraticSuperscript)

\* The same classification with the label as the code spells it: this one
\* holds, so the label's bytes are all that C9 fails on.
LoopClassificationInCodeSpelling ==
    pyParsed =>
        \A k \in DOMAIN pyResult.complexity :
            ~CallsItself(pySource, pyResult.complexity[k].line) =>
                ClassifiedByLoops(pyResult.complexity[k], Quadratic)

\* C10 (as claimed): every function definition, asynchronous and nested ones
\* included, whose body calls its own name is O(2^n), whatever its loops.
C10_RecursionFirst ==
    pyParsed =>
        \A k \in DOMAIN pyResult.complexity :
            CallsItself(pySource, pyResult.complexity[k].line) =>
                pyResult.complexity[k].complexity = "O(2^n)"

\* The same for definitions that are not asynchronous: this one holds.
RecursionFirstUnlessAsync ==
    pyParsed =>
        \A k \in DOMAIN pyResult.complexity :
            (/\ CallsItself(pySource, pyResult.complexity[k].line)
             /\ pySource[pyResult.complexity[k].line].kind = "def") =>
                pyResult.complexity[k].complexity = "O(2^n)"

---------------------------------------------------------------------------
(* Properties of analyze_project *)

\* The (source, target) pairs of a list of dependency records.
DependencyEdges(deps) == {<<deps[k].source, deps[k].target>> : k \in DOMAIN deps}

\* The steps of a cycle: its consecutive pairs.
CycleEdges(c) == {<<c[i], c[i+1]>> : i \in 1..(Len(c) - 1)}

\* C5 (as claimed): the cycles a call reports are those of the tree it was
\* given: every step of every reported cycle is a dependency found in that
\* tree, whatever the same CodeGraphAnalyzer analysed before.
C5_CyclesOfThisTreeOnly ==
    projRuns >= 1 =>
        \A k \in DOMAIN projResult.cycles :
            CycleEdges(projResult.cycles[k].cycle)
                \subseteq DependencyEdges(projResult.dependencies)

\* C6 (as claimed): two consecutive calls on the same tree return the same set
\* of dependency records, the same set of complexity records and the same set
\* of cycles.
C6_SameTreeSameSets ==
    (projRuns = 2 /\ projTree = projPrevTree) =>
        /\ Range(projResult.dependencies) = Range(projPrevResult.dependencies)
        /\ Range(projResult.complexity) = Range(projPrevResult.complexity)
        /\ CycleSet([k \in DOMAIN projResult.cycles |-> projResult.cycles[k].cycle])
             = CycleSet([k \in DOMAIN projPrevResult.cycles |->
                            projPrevResult.cycles[k].cycle])

\* C7 (as claimed): a call on a tree none of whose files is matched returns
\* zero for the four counts and empty lists.
C7_NothingMatchedAllZero ==
    (projRuns >= 1 /\ FindSourceFiles(projTree) = <<>>) =>
        /\ projResult.metrics.total_files = 0
        /\ projResult.metrics.total_functions = 0
        /\ projResult.metrics.dependency_count = 0
        /\ projResult.metrics.circular_dependencies = 0
        /\ projResult.dependencies = <<>>
        /\ projResult.complexity = <<>>
        /\ projResult.cycles = <<>>

---------------------------------------------------------------------------
(* Properties of the pattern-based estimators *)

\* The text slice the estimator was given for a complexity record.
BodyOf(rec) ==
    ExtractFunctionBody(patSource, rec.line - 1,
                        IF patLang = "js" THEN JsBodyLimit ELSE GoBodyLimit)

\* The name a line calls as a statement of its own.
CalledIn(line) == IF line \in {JsReturn, GoReturn} THEN "f" ELSE ""

IsLoopLine(line) == line.loops # <<>>

\* The blocks open after each line of a body, innermost last, and whether a
\* loop-introducing line has been met inside an open loop block.
LexicalScan(body) ==
    LET F[k \in 0..Len(body)] ==
            IF k = 0 THEN [open |-> <<>>, nested |-> FALSE]
            ELSE LET line == body[k]
                     before == F[k - 1]
                     kind == IF IsLoopLine(line) THEN "loop" ELSE "other"
                 IN [open |->
                        IF line.open > line.close THEN Append(before.open, kind)
                        ELSE IF line.close > line.open /\ before.open # <<>>
                        THEN SubSeq(before.open, 1, Len(before.open) - 1)
                        ELSE before.open,
                     nested |->
                        \/ before.nested
                        \/ IsLoopLine(line) /\ "loop" \in Range(before.open)]
    IN F[Len(body)]

\* C11 (as claimed): a JavaScript/TypeScript or Go function whose body calls
\* the function by its own name is classified O(2^n), whatever loops it has.
C11_PatternRecursionFirst ==
    patParsed =>
        \A k \in DOMAIN patResult.complexity :
            LET rec == patResult.complexity[k]
            IN (\E j \in DOMAIN BodyOf(rec) : CalledIn(BodyOf(rec)[j]) = rec.function)
                   => rec.complexity = "O(2^n)"

\* C12 (as claimed): a body without a loop keyword is O(1), a body whose loops
\* lie outside one another is O(n), and a body is quadratic, with a warning,
\* exactly when a loop-introducing line is met while a loop's body is open.
\* Either spelling of the quadratic label is accepted here.
C12_PatternLoopClassification ==
    patParsed =>
        \A k \in DOMAIN patResult.complexity :
            LET rec == patResult.complexity[k]
                body == BodyOf(rec)
                loops == \E j \in DOMAIN body : IsLoopLine(body[j])
                nested == LexicalScan(body).nested
            IN /\ ~loops => rec.complexity = "O(1)"
               /\ (loops /\ ~nested) => rec.complexity = "O(n)"
               /\ nested <=> (/\ rec.complexity \in {Quadratic, QuadraticSuperscript}
                              /\ rec.warning # None)

---------------------------------------------------------------------------
(* Properties of PythonParser.parse *)

\* The targets claimed for an import statement: its names, qualified by the
\* module for a from-style import.
ClaimedTargets(l) ==
    IF l.kind = "import" THEN l.names
    ELSE IF l.kind = "from"
    THEN [a \in 1..Len(l.names) |-> l.name \o "." \o l.names[a]]
    ELSE <<>>

\* C13 (as claimed): for a file that parses, the dependency records of each
\* line are one for each name the import statement of that line binds (none
\* for any other statement), with the claimed targets in a from-style import
\* of a named module and in a plain import, the file as source and the
\* statement's line and column.
C13_OneEdgePerBoundName ==
    (pyParsed /\ WellFormed(pySource)) =>
        /\ \A k \in DOMAIN pyResult.dependencies :
              LET d == pyResult.dependencies[k]
              IN /\ d.source = pyPath
                 /\ d.line \in DOMAIN pySource
                 /\ d.column = pySource[d.line].indent
        /\ \A i \in DOMAIN pySource :
              LET here == SelectSeq(pyResult.dependencies, LAMBDA d : d.line = i)
                  l == pySource[i]
              IN /\ Len(here) = Len(ClaimedTargets(l))
                 /\ (l.kind = "import" \/ (l.kind = "from" /\ l.name # "")) =>
                        [a \in 1..Len(here) |-> here[a].target] = ClaimedTargets(l)

\* What holds of the code: the same, a from-style import that names no
\* module (from . import x) left out.
OneEdgePerBoundNameOfNamedModule ==
    (pyParsed /\ WellFormed(pySource)) =>
        \A i \in DOMAIN pySource :
            LET here == SelectSeq(pyResult.dependencies, LAMBDA d : d.line = i)
                l == pySource[i]
            IN IF l.kind = "from" /\ l.name = "" THEN here = <<>>
               ELSE [a \in 1..Len(here) |-> here[a].target] = ClaimedTargets(l)

---------------------------------------------------------------------------
(* Properties of analyze_project on files of every kind *)

\* Extraction fails for a file: it cannot be read, or it is a Python file
\* that ast.parse rejects.
Fails(file) ==
    \/ ~file.readable
    \/ GetParser(file) = "PythonParser" /\ ~WellFormed(file.lines)

\* C14: analyze_project returns, and the dependency records, the complexity
\* records and the function count it returns are those of the files that did
\* not fail: no record comes from a file whose extraction failed.
C14_FailedFileContributesNothing ==
    projRuns >= 1 =>
        LET files == FindSourceFiles(projTree)
            sound == SelectSeq(files, LAMBDA f : ~Fails(f))
            failed == {files[k].path : k \in {j \in DOMAIN files : Fails(files[j])}}
        IN /\ \A k \in DOMAIN projResult.dependencies :
                 projResult.dependencies[k].source \notin failed
           /\ \A k \in DOMAIN projResult.complexity :
                 projResult.complexity[k].file \notin failed
           /\ projResult.dependencies = Accumulate(sound).dependencies
           /\ projResult.complexity = Accumulate(sound).complexity
           /\ projResult.metrics.total_functions = Len(Accumulate(sound).functions)
           /\ projResult.metrics.dependency_count = Len(Accumulate(sound).dependencies)

\* A tree with a file that does not parse and a file that cannot be read has
\* been analysed, and the records of its third file are in the result.
C14_Witness ==
    /\ projRuns >= 1
    /\ projTree = TreeBroken
    /\ \E k \in DOMAIN projTree : ~projTree[k].readable
    /\ \E k \in DOMAIN projTree : projTree[k].readable /\ Fails(projTree[k])
    /\ Len(projResult.dependencies) = 1
    /\ Len(projResult.complexity) = 1
    /\ projResult.metrics.total_files = 3

\* The parsers of the registry that accept a file, by position.
Accepting(file) == {i \in DOMAIN Parsers : CanParse(Parsers[i], file)}

\* Extensions of every parser and of none.
SomeExtensions ==
    UNION {Parsers[i].file_extensions : i \in DOMAIN Parsers} \cup {".md", ".txt", ""}

\* C15: at most one registered parser accepts a file, _get_parser returns the
\* first that does, and a file no parser accepts gives no record and is not
\* counted in total_files.
C15_FirstMatchingParser ==
    /\ \A e \in SomeExtensions :
          LET file == File("f" \o e, e, FALSE, <<>>)
          IN /\ Cardinality(Accepting(file)) <= 1
             /\ GetParser(file) = IF Accepting(file) = {} THEN None
                                  ELSE Parsers[Min(Accepting(file))].name
    /\ projRuns >= 1 =>
          /\ \A k \in DOMAIN projTree :
                Accepting(projTree[k]) = {} =>
                    /\ \A j \in DOMAIN projResult.dependencies :
                          projResult.dependencies[j].source # projTree[k].path
                    /\ \A j \in DOMAIN projResult.complexity :
                          projResult.complexity[j].file # projTree[k].path
          /\ projResult.metrics.total_files =
                Cardinality({k \in DOMAIN projTree :
                                /\ ~projTree[k].excluded
                                /\ Accepting(projTree[k]) # {}})

\* A tree with a JavaScript file, a Go file, a Python file and a README has
\* been analysed: three files counted, records from each parser.
C15_Witness ==
    /\ projRuns >= 1
    /\ projTree = TreeMixed
    /\ \E k \in DOMAIN projTree : Accepting(projTree[k]) = {}
    /\ projResult.metrics.total_files = 3
    /\ {projResult.complexity[j].file : j \in DOMAIN projResult.complexity}
          = {"w.js", "m.go"}
    /\ \E j \in DOMAIN projResult.dependencies :
          projResult.dependencies[j].source = "b.py"

\* C16: a reported cycle has severity 'error' exactly when its list, the
\* closing node counted twice, has more than 5 entries, which is when the
\* cycle goes through at least 5 distinct nodes, and 'warning' otherwise.
C16_SeverityByLength ==
    projRuns >= 1 =>
        \A k \in DOMAIN projResult.cycles :
            LET c == projResult.cycles[k]
            IN /\ c.severity = "error" <=> Len(c.cycle) > 5
               /\ c.severity = "warning" <=> Len(c.cycle) <= 5
               /\ Len(c.cycle) > 5 <=> Cardinality(Range(c.cycle)) >= 5

\* A ring of five files was reported as an error after a ring of four files
\* was reported as a warning.
C16_Witness ==
    /\ projRuns = 2
    /\ \E k \in DOMAIN projResult.cycles :
          /\ Len(projResult.cycles[k].cycle) = 6
          /\ projResult.cycles[k].severity = "error"
    /\ \E k \in DOMAIN projPrevResult.cycles :
          /\ Len(projPrevResult.cycles[k].cycle) = 5
          /\ projPrevResult.cycles[k].severity = "warning"


(***************************************************************************)
(* C17: the accessors return copies                                        *)
(***************************************************************************)

\* What the analyzer's dict holds for the node and direction of the set the
\* caller keeps.
HeldByAnalyzer ==
    IF returned.dict = "graph" THEN graph[returned.node]
    ELSE reverse_graph[returned.node]

\* C17: get_dependencies and get_dependents return copies: a step that
\* changes a returned set, or that calls get_dependencies, get_dependents or
\* detect_cycles for any node (one never named in an edge included), adds no
\* edge to and removes no edge from the forward or the reverse adjacency;
\* only add_dependency of a new pair changes them.
C17_AccessorsReturnCopies ==
    [][called' = called =>
           /\ EdgesOf(graph') = EdgesOf(graph)
           /\ EdgesOf(reverse_graph') = EdgesOf(reverse_graph)]_vars

\* Edges exist, detect_cycles has run, and the caller has changed the set
\* returned for a node that no edge names, so that it differs from the
\* analyzer's own.
C17_Witness ==
    /\ called # {}
    /\ detected
    /\ returned # NoReturn
    /\ \A e \in called : returned.node \notin {e[1], e[2]}
    /\ returned.value # HeldByAnalyzer


(***************************************************************************)
(* C18: sets are idempotent, records are not deduplicated                  *)
(***************************************************************************)

\* The places of a Python file where `import target` is written: line and
\* position among the names of the statement.
ImportOccurrences(file, target) ==
    UNION {{<<i, a>> : a \in {b \in DOMAIN file.lines[i].names :
                                  file.lines[i].names[b] = target}} :
              i \in {j \in DOMAIN file.lines : file.lines[j].kind = "import"}}

RecordsOf(source, target) ==
    {k \in DOMAIN projResult.dependencies :
        /\ projResult.dependencies[k].source = source
        /\ projResult.dependencies[k].target = target}

\* C18: adding an edge that is already present leaves the forward and the
\* reverse adjacency as they are, while records are kept one per occurrence:
\* an import of the same target written k times in a Python file that parses
\* gives k DependencyEdge records, and dependency_count is the number of
\* records, duplicates included.
C18_SetIdempotentRecordsKept ==
    projRuns >= 1 =>
        LET files == FindSourceFiles(projTree)
        IN /\ \A e \in EdgesOf(graph) :
                 LET r == AddDependencyOp(graph, reverse_graph, graphKeys, e[1], e[2])
                 IN r.graph = graph /\ r.reverse_graph = reverse_graph
           /\ \A k \in DOMAIN files : \A t \in Nodes :
                 (GetParser(files[k]) = "PythonParser" /\ ~Fails(files[k])) =>
                     Cardinality(RecordsOf(files[k].path, t)) =
                         Cardinality(ImportOccurrences(files[k], t))
           /\ projResult.metrics.dependency_count = Len(projResult.dependencies)
           /\ EdgesOf(BuildGraph(EmptyGraph, EmptyGraph, <<>>,
                                 projResult.dependencies).graph) =
                 {<<projResult.dependencies[k].source,
                    projResult.dependencies[k].target>> :
                      k \in DOMAIN projResult.dependencies}

\* A file importing the same module twice has been analysed: two records of
\* one pair, counted twice, and the pair is one edge of the graph.
C18_Witness ==
    /\ projRuns >= 1
    /\ \E s \in Nodes, t \in Nodes :
          /\ Cardinality(RecordsOf(s, t)) = 2
          /\ projResult.metrics.dependency_count = 2
          /\ EdgesOf(graph) \cap {e \in Nodes \X Nodes : e[1] = s} = {<<s, t>>}


(***************************************************************************)
(* C19: whether one detect_cycles call lists a cycle twice                 *)
(***************************************************************************)

\* Two entries of a returned list are the same simple cycle up to rotation.
ListedTwice(cs) ==
    \E i \in DOMAIN cs, j \in DOMAIN cs :
        i < j /\ Rotations(cs[i]) = Rotations(cs[j])

\* The adjacency with exactly the edges E.
GraphOf(E) == [n \in Nodes |-> {e[2] : e \in {x \in E : x[1] = n}}]

\* The key orders a graph can have: its sources in any order of first
\* insertion, with or without nodes that a lookup has made keys.
KeyOrdersOf(g) ==
    UNION {Perms(K) : K \in {L \in SUBSET GraphNodes :
                                \A n \in GraphNodes : g[n] # {} => n \in L}}

\* C19 as claimed: there is a graph, a key order and an iteration order for
\* which one detect_cycles call lists the same simple cycle more than once.
\* Stated from the analyzer's state: some graph that add_dependency can still
\* make of the present one has such a traversal.
C19_SameCycleListedTwice ==
    \E E \in SUBSET (GraphNodes \X GraphNodes) :
        /\ EdgesOf(graph) \subseteq E
        /\ Cardinality(E) <= MaxEdges
        /\ \E keys \in KeyOrdersOf(GraphOf(E)), ord \in SuccOrdersOf(GraphOf(E)) :
              ListedTwice(DetectCyclesOp(GraphOf(E), keys, ord).cycles)

\* C19 as the code has it: dfs marks a node visited when it enters it, so a
\* call enters each node once and follows each edge once; every entry of the
\* list comes from a different back edge, and no simple cycle is listed
\* twice in the list one detect_cycles call returns.
C19_NoCycleListedTwice == detected => ~ListedTwice(cycles)

\* detect_cycles has returned two cycles, one of them through two nodes that
\* are both keys of the graph, each a possible DFS root.
C19_Witness ==
    /\ detected
    /\ cyclesEdges = EdgesOf(graph)
    /\ Len(cycles) >= 2
    /\ \E i \in DOMAIN cycles :
          /\ Cardinality(Range(cycles[i])) >= 2
          /\ Range(cycles[i]) \subseteq Range(graphKeys)


(***************************************************************************)
(* C20: metrics and the order of the files                                 *)
(***************************************************************************)

\* The files of a tree, whatever their order.
FileSet(tree) == Range(tree)

\* C20: for a fixed set of files, every order in which the files are parsed
\* and accumulated gives the same ProjectMetrics: two runs of new analyzers
\* over the same files, in the same process, return equal metrics.
C20_MetricsAnyFileOrder ==
    (projRuns = 2 /\ FileSet(projTree) = FileSet(projPrevTree)) =>
        projResult.metrics = projPrevResult.metrics

\* The metrics that do not depend on cycle detection are the same in every
\* order of the files.
MetricsButCyclesAnyFileOrder ==
    (projRuns = 2 /\ FileSet(projTree) = FileSet(projPrevTree)) =>
        /\ projResult.metrics.total_files = projPrevResult.metrics.total_files
        /\ projResult.metrics.total_functions = projPrevResult.metrics.total_functions
        /\ projResult.metrics.average_complexity =
              projPrevResult.metrics.average_complexity
        /\ projResult.metrics.dependency_count =
              projPrevResult.metrics.dependency_count


(***************************************************************************)
(* C21: one complexity record for each declaration                         *)
(***************************************************************************)

\* The lines of the parsed file that hold a function declaration.
DeclarationLines == {k \in DOMAIN patSource : patSource[k].functions # <<>>}

\* C21: a pattern-based extractor emits exactly one complexity record for
\* each function declaration it finds: no declaration (a line of the file)
\* has two records, every declaration has one, and the file has as many
\* complexity records as function names.
C21_OneRecordPerDeclaration ==
    patParsed =>
        /\ \A i \in DOMAIN patResult.complexity, j \in DOMAIN patResult.complexity :
              i # j => patResult.complexity[i].line # patResult.complexity[j].line
        /\ {patResult.complexity[i].line : i \in DOMAIN patResult.complexity}
              = DeclarationLines
        /\ Len(patResult.complexity) = Len(patResult.functions)


(***************************************************************************)
(* C22: the warning and the class of a record                              *)
(***************************************************************************)

\* A record carries a warning exactly when its class is one of `high`.
WarnedIff(rec, high) == rec.warning \notin {None, ""} <=> rec.complexity \in high

\* C22: in every complexity record the warning is non-empty if and only if
\* the class is O(n^2) (written with the superscript two), O(2^n) or O(n!);
\* records of the other classes carry no warning.
C22_WarningIffHighClass ==
    pyParsed =>
        \A k \in DOMAIN pyResult.complexity :
            WarnedIff(pyResult.complexity[k],
                      {QuadraticSuperscript, "O(2^n)", "O(n!)"})

\* With the quadratic label as the code spells it, the Python records carry
\* a warning exactly for the three high classes.
WarningIffHighClassInCodeSpelling ==
    pyParsed =>
        \A k \in DOMAIN pyResult.complexity :
            WarnedIff(pyResult.complexity[k], {Quadratic, "O(2^n)", "O(n!)"})

\* The same of the records of the JavaScript and Go extractors.
PatternWarningIffHighClassInCodeSpelling ==
    patParsed =>
        \A k \in DOMAIN patResult.complexity :
            WarnedIff(patResult.complexity[k], {Quadratic, "O(2^n)", "O(n!)"})


(***************************************************************************)
(* C23: a reported cycle is a closed walk of the graph                     *)
(***************************************************************************)

\* c is a closed walk over the edges E that repeats no node but the first
\* as the last.
ClosedWalk(c, E) ==
    /\ Len(c) >= 2
    /\ c[1] = c[Len(c)]
    /\ \A k \in 1..(Len(c) - 1) : <<c[k], c[k + 1]>> \in E
    /\ \A j \in 1..(Len(c) - 1), k \in 1..(Len(c) - 1) : j # k => c[j] # c[k]

\* C23: every cycle detect_cycles returns has at least two entries, begins
\* and ends with the same node, steps along edges of the graph only, and
\* repeats no other node; a self-loop on a is reported as <<a, a>>.
C23_CycleIsClosedWalk ==
    detected =>
        /\ \A i \in DOMAIN cycles : ClosedWalk(cycles[i], cyclesEdges)
        /\ \A a \in Nodes :
              <<a, a>> \in cyclesEdges => \E i \in DOMAIN cycles : cycles[i] = <<a, a>>

\* detect_cycles has returned a self-loop and a cycle through more than one
\* node which starts at a node that was not the DFS root.
C23_Witness ==
    /\ detected
    /\ \E i \in DOMAIN cycles : Len(cycles[i]) = 2
    /\ \E i \in DOMAIN cycles :
          /\ Len(cycles[i]) >= 3
          /\ graphKeys # <<>>
          /\ cycles[i][1] # graphKeys[1]


(***************************************************************************)
(* C24: the body of a function found by brace counting                     *)
(***************************************************************************)

\* The braces open after lines[from..to]: '{' counted less '}'.
RECURSIVE OpenBraces(_, _, _)
OpenBraces(lines, from, to) ==
    IF to < from THEN 0
    ELSE OpenBraces(lines, from, to - 1) + lines[to].open - lines[to].close

\* The body as claimed for the declaration on line k (counted from 1): the
\* lines from k to the first line at which the braces opened from line k on
\* balance again, or, when there is none within the window of `limit` lines
\* and the file, the lines of the window.
ClaimedBody(lines, k, limit) ==
    LET last == IF Len(lines) < k - 1 + limit THEN Len(lines) ELSE k - 1 + limit
        balanced == {e \in k..last :
                        /\ \E j \in k..e : lines[j].open > 0
                        /\ OpenBraces(lines, k, e) <= 0}
    IN SubSeq(lines, k, IF balanced = {} THEN last ELSE Min(balanced))

\* The search limit of the extractor of the parsed file's language.
BodyLimit == IF patLang = "js" THEN JsBodyLimit ELSE GoBodyLimit

\* C24: the body extracted for a declaration is the run of lines that begins
\* with the declaration line, is no longer than the window, and ends with
\* the line on which the braces opened from the declaration line on balance
\* again (no later line is included), or with the last line of the window
\* or of the file when they do not balance.
C24_BodyEndsWhereBracesBalance ==
    \A k \in DeclarationLines :
        /\ ExtractFunctionBody(patSource, k - 1, BodyLimit)
              = ClaimedBody(patSource, k, BodyLimit)
        /\ Len(ExtractFunctionBody(patSource, k - 1, BodyLimit)) <= BodyLimit

\* What holds: for a declaration line that leaves a brace open, the body is
\* as claimed.
BodyOfOpenDeclaration ==
    \A k \in DeclarationLines :
        patSource[k].open > patSource[k].close =>
            ExtractFunctionBody(patSource, k - 1, BodyLimit)
                = ClaimedBody(patSource, k, BodyLimit)


(***************************************************************************)
(* detect_cycles statement by statement.  dfsRun holds the locals of the   *)
(* call (visited, rec_stack, cycles), the list `path` the dfs calls share, *)
(* the snapshot of the keys and the place in it, and one frame for each    *)
(* dfs call in progress: its node, the iteration of self.graph[node] and   *)
(* the place in that iteration.  expanded and examined count, for the      *)
(* claim, how often a node's loop was begun and an edge was followed.      *)
(***************************************************************************)

\* visited = set(); rec_stack = set(); cycles = []; list(self.graph.keys())
StartRun(keys, ord) ==
    [phase |-> "running", keys |-> keys, ord |-> ord, root |-> 0,
     visited |-> {}, rec_stack |-> {}, path |-> <<>>, cycles |-> <<>>,
     frames |-> <<>>,
     expanded |-> [n \in GraphNodes |-> 0],
     examined |-> [e \in GraphNodes \X GraphNodes |-> 0]]

\* dfs(node, path) past its two tests: visited.add(node),
\* rec_stack.add(node), path.append(node), and the loop over
\* self.graph[node] begins.
EnterNode(run, g, node) ==
    [run EXCEPT !.visited = @ \cup {node},
                !.rec_stack = @ \cup {node},
                !.path = Append(@, node),
                !.frames = Append(@, [node |-> node,
                                      succs |-> IterSeq(g[node], run.ord[node]),
                                      at |-> 0]),
                !.expanded[node] = @ + 1]

\* A return that leaves the node on the recursion stack.
LeaveNodeKeepStack(run) ==
    [run EXCEPT !.path = SubSeq(@, 1, Len(@) - 1),
                !.frames = SubSeq(@, 1, Len(@) - 1)]

\* rec_stack.remove(node); path.pop(); return False
LeaveNode(run) ==
    [run EXCEPT !.rec_stack = @ \ {run.frames[Len(run.frames)].node},
                !.path = SubSeq(@, 1, Len(@) - 1),
                !.frames = SubSeq(@, 1, Len(@) - 1)]

\* The dfs call on top and the neighbor its loop takes next.
Top == dfsRun.frames[Len(dfsRun.frames)]

HasNeighbor ==
    /\ dfsRun.phase = "running"
    /\ dfsRun.frames # <<>>
    /\ Top.at < Len(Top.succs)

Neighbor == Top.succs[Top.at + 1]

\* The run with the loop of the top frame moved on to the neighbor.
Followed ==
    [dfsRun EXCEPT !.frames[Len(dfsRun.frames)].at = @ + 1,
                   !.examined[<<Top.node, Neighbor>>] = @ + 1]

\* for node in list(self.graph.keys()): if node not in visited: dfs(node, [])
DfsRoot ==
    /\ dfsRun.phase = "running"
    /\ dfsRun.frames = <<>>
    /\ dfsRun.root < Len(dfsRun.keys)
    /\ dfsRun.keys[dfsRun.root + 1] \notin dfsRun.visited
    /\ dfsRun' = EnterNode([dfsRun EXCEPT !.root = @ + 1], graph,
                           dfsRun.keys[dfsRun.root + 1])
    /\ UNCHANGED graphVars

\* for node in list(self.graph.keys()): the node is in visited
DfsSkipRoot ==
    /\ dfsRun.phase = "running"
    /\ dfsRun.frames = <<>>
    /\ dfsRun.root < Len(dfsRun.keys)
    /\ dfsRun.keys[dfsRun.root + 1] \in dfsRun.visited
    /\ dfsRun' = [dfsRun EXCEPT !.root = @ + 1]
    /\ UNCHANGED graphVars

\* dfs(neighbor, path) with neighbor in rec_stack: path.index(neighbor) and
\* cycles.append(path[cycle_start:] + [neighbor]).  list.index raises
\* ValueError when the node is not in path, which ends detect_cycles.
DfsCycle ==
    /\ HasNeighbor
    /\ Neighbor \in dfsRun.rec_stack
    /\ dfsRun' =
          IF Neighbor \in Range(dfsRun.path)
          THEN [Followed EXCEPT !.cycles =
                   Append(@, SubSeq(dfsRun.path, Index(dfsRun.path, Neighbor),
                                    Len(dfsRun.path)) \o <<Neighbor>>)]
          ELSE [Followed EXCEPT !.phase = "ValueError"]
    /\ UNCHANGED graphVars

\* dfs(neighbor, path) with neighbor in visited and not in rec_stack
DfsVisited ==
    /\ HasNeighbor
    /\ Neighbor \notin dfsRun.rec_stack
    /\ Neighbor \in dfsRun.visited
    /\ dfsRun' = Followed
    /\ UNCHANGED graphVars

\* dfs(neighbor, path) with a new neighbor; self.graph[neighbor] makes the
\* neighbor a key of the defaultdict when it is none.
DfsDescend ==
    /\ HasNeighbor
    /\ Neighbor \notin dfsRun.rec_stack
    /\ Neighbor \notin dfsRun.visited
    /\ dfsRun' = EnterNode(Followed, graph, Neighbor)
    /\ graphKeys' = TouchKey(graphKeys, Neighbor)
    /\ UNCHANGED <<graph, reverse_graph, called, cycles, cyclesEdges, detected>>

\* The loop over self.graph[node] is over: the dfs call returns.
DfsReturn ==
    /\ dfsRun.phase = "running"
    /\ dfsRun.frames # <<>>
    /\ Top.at = Len(Top.succs)
    /\ dfsRun' = LeaveNode(dfsRun)
    /\ UNCHANGED graphVars

\* return cycles
DfsFinish ==
    /\ dfsRun.phase = "running"
    /\ dfsRun.frames = <<>>
    /\ dfsRun.root = Len(dfsRun.keys)
    /\ dfsRun' = [dfsRun EXCEPT !.phase = "returned"]
    /\ cycles' = dfsRun.cycles
    /\ cyclesEdges' = EdgesOf(graph)
    /\ detected' = TRUE
    /\ UNCHANGED <<graph, reverse_graph, graphKeys, called>>

DfsNext ==
    \/ DfsRoot /\ UNCHANGED <<orderVars, avgVars, pyVars, projVars, patVars, refVars>>
    \/ DfsSkipRoot /\ UNCHANGED <<orderVars, avgVars, pyVars, projVars, patVars, refVars>>
    \/ DfsCycle /\ UNCHANGED <<orderVars, avgVars, pyVars, projVars, patVars, refVars>>
    \/ DfsVisited /\ UNCHANGED <<orderVars, avgVars, pyVars, projVars, patVars, refVars>>
    \/ DfsDescend /\ UNCHANGED <<orderVars, avgVars, pyVars, projVars, patVars, refVars>>
    \/ DfsReturn /\ UNCHANGED <<orderVars, avgVars, pyVars, projVars, patVars, refVars>>
    \/ DfsFinish /\ UNCHANGED <<orderVars, avgVars, pyVars, projVars, patVars, refVars>>

\* detect_cycles is called on an analyzer that add_dependency calls have
\* given any graph of up to MaxEdges edges, with any order of its keys and
\* any iteration order of its successor sets.
RunInit ==
    /\ \E E \in SUBSET (GraphNodes \X GraphNodes) :
          /\ Cardinality(E) <= MaxEdges
          /\ graph = GraphOf(E)
          /\ reverse_graph = GraphOf({<<e[2], e[1]>> : e \in E})
          /\ called = E
    /\ graphKeys \in KeyOrdersOf(graph)
    /\ cycles = <<>>
    /\ cyclesEdges = {}
    /\ detected = FALSE
    /\ \E ord \in SuccOrdersOf(graph) : dfsRun = StartRun(graphKeys, ord)

InitDfs == RunInit /\ OrderIdle /\ AvgInit /\ PyInit /\ ProjIdle /\ PatIdle /\ RefIdle

\* A call runs on to its return: Python executes the next statement of the
\* one thread there is.
SpecDfs == InitDfs /\ [][DfsNext]_vars /\ WF_vars(DfsNext)


(***************************************************************************)
(* C25: detect_cycles terminates                                           *)
(***************************************************************************)

\* What holds at every statement of a detect_cycles call.
RunInvariant ==
    /\ dfsRun.phase # "ValueError"
    /\ dfsRun.rec_stack = Range(dfsRun.path)
    /\ Len(dfsRun.path) = Cardinality(dfsRun.rec_stack)
    /\ HasNeighbor /\ Neighbor \in dfsRun.rec_stack => Index(dfsRun.path, Neighbor) > 0
    /\ \A n \in GraphNodes : dfsRun.expanded[n] <= 1
    /\ \A e \in GraphNodes \X GraphNodes : dfsRun.examined[e] <= 1
    /\ dfsRun.phase = "returned" =>
          /\ dfsRun.rec_stack = {}
          /\ dfsRun.path = <<>>
          /\ \A n \in GraphNodes : \A t \in graph[n] :
                dfsRun.expanded[n] = 1 => dfsRun.examined[<<n, t>>] = 1

RunAgreesWithDetectCyclesOp ==
    dfsRun.phase = "returned" =>
        cycles = DetectCyclesOp(graph, dfsRun.keys, dfsRun.ord).cycles


(***************************************************************************)
(* C26: a mean halfway between two ranks                                   *)
(***************************************************************************)

\* The ranks of the records that were averaged.
RanksAveraged == {Score(averageOf[k]) : k \in DOMAIN averageOf}

=============================================================================
